---- MODULE Spec2Model ----
(***************************************************************************)
(* Bouncing-ball simulation with bidirectional time control.               *)
(*                                                                         *)
(* The repository holds four copies of the time-travel engine:             *)
(*   "tm"      src/src/time_manager.py + src/src/physics.py, driven by     *)
(*             src/src/main_refactored.py                                  *)
(*   "main"    src/src/main.py (PhysicsSimulation, screen coordinates)     *)
(*   "desktop" src/archive/desktop-version/src/simulation/                 *)
(*             physics_simulation.py with src/src/physics/ball.py          *)
(*   "web"     src/src/physics_engine.py (physics coordinates, list        *)
(*             history)                                                    *)
(* The variable variant fixes which copy a behaviour runs.                 *)
(*                                                                         *)
(* Specifications.  Spec runs one engine under its operations; HeapSpec    *)
(* follows the same operations by object identity; BallSpec and            *)
(* BallFairSpec tick a screen-coordinate Body and its physics-coordinate   *)
(* mirror image on their own; ServerSpec runs the sessions of              *)
(* src/src/server.py side by side, ThreadSpec one session against the      *)
(* update thread statement by statement, PassSpec the passes of the update *)
(* thread over two sessions, BoundarySpec the text inputs of the GUI and   *)
(* of the web 'step' message, RestSpec the TimeManager copy with its ball  *)
(* at rest on the ground.                                                  *)
(*                                                                         *)
(* Numbers.  The code computes in binary floating point.  The model uses   *)
(* exact integers: time is counted in units of dt/2 (so that amounts       *)
(* smaller than dt and amounts between two multiples of dt exist),         *)
(* positions in pixels, velocities in pixels per time unit.  The bounce    *)
(* damping 0.8 is the fraction 4/5, truncated toward zero when the         *)
(* product is not an integer.                                              *)
(***************************************************************************)
EXTENDS Integers, Sequences, FiniteSets, TLC

(***************************************************************************)
(* Bounds of the model.                                                    *)
(***************************************************************************)
\* largest number of advancing ticks the Body undergoes between two returns
\* to the initial state
MaxTicks == 4
\* history capacity (HISTORY_MAX_FRAMES / MAX_HISTORY_FRAMES / max_history,
\* 500 in the code), scaled down so that eviction happens
HistoryCap == 2
\* largest frame count passed to a frame-stepping operation
MaxFrames == 2
\* largest time amount passed to a time-stepping operation, in time units
MaxAmount == 5
\* largest number of advancing ticks a server session undergoes between two
\* returns to its initial state
MaxSessionTicks == 3
\* largest magnitude of a time_step a client sends, in time units
MaxStep == 2
\* number of release heights of the pair of Bodies that is ticked on its own
MaxDrops == 40
\* ticks since the release are counted up to this number
MaxBallTicks == 24

(***************************************************************************)
(* Program constants, in model units.                                      *)
(***************************************************************************)
\* dt = 1 / target_fps : one tick is two time units
DT == 2
\* gravity magnitude (pixels per time unit squared)
GRAVITY == 25
\* bounce_damping = 0.8 = BOUNCE_NUM / BOUNCE_DEN
BOUNCE_NUM == 4
BOUNCE_DEN == 5
\* post-bounce speeds below this are snapped to 0
MIN_BOUNCE_VELOCITY == 30
\* ball radius
RADIUS == 20
\* ground line of the screen-coordinate variants: height - GROUND_OFFSET
GROUND_Y == 550
\* start height, screen coordinates (y grows downward)
SCREEN_START_Y == 100
\* start height of the web variant, physics coordinates (y grows upward)
PHYSICS_START_Y == 400
\* horizontal position, never changed by the physics
BALL_X == 400
\* mass of the ball
BALL_MASS == 1
\* target_fps: ticks per second
TARGET_FPS == 144
\* distance between two release heights of the pair of Bodies
DROP_STEP == 12

\* largest simulation time that MaxTicks ticks can reach, in time units
MaxTime == MaxTicks * DT

Variants == {"tm", "main", "desktop", "web"}

VARIABLES
    variant,                \* which copy of the engine runs
    simulation_time,        \* in time units
    is_playing,
    auto_pause_after_step,
    step_mode,              \* "frames" or "seconds" (TimeManager only)
    ball,                   \* the live Body
    history,                \* stored snapshots, oldest first
    time_history,           \* stored times, oldest first
    heap,                   \* objects by identity: snapshots and Body state
    state_ref,              \* identity of the object holding the live Body
    history_refs,           \* identities of the stored snapshots, oldest first
    last,                   \* record of the most recent operation
    ticks_used,             \* advancing ticks since the last initial state
    round_trip,             \* tracks step_forward_frames(n) ; step_backward_frames(n)
    screen_ball,            \* a Body in screen coordinates, ticked on its own
    physics_ball,           \* its mirror image in physics coordinates
    last_tick,              \* the most recent tick of the pair of Bodies
    simulations,            \* server: session id -> its PhysicsSimulation object
    sims,                   \* server: PhysicsSimulation objects by identity
    driver,                 \* server: position of the update thread
    server_last             \* record of the most recent boundary event

\* the fields of one engine and the records kept about it
enginevars == <<variant, simulation_time, is_playing, auto_pause_after_step,
                step_mode, ball, history, time_history, heap, state_ref,
                history_refs, last, ticks_used, round_trip>>

\* the pair of Bodies that is ticked outside any engine
ballvars == <<screen_ball, physics_ball, last_tick>>

\* the web server: sessions, their simulations, the update thread
servervars == <<simulations, sims, driver, server_last>>

vars == <<variant, simulation_time, is_playing, auto_pause_after_step,
          step_mode, ball, history, time_history, heap, state_ref,
          history_refs, last, ticks_used, round_trip, screen_ball,
          physics_ball, last_tick, simulations, sims, driver, server_last>>

(***************************************************************************)
(* Arithmetic helpers.                                                     *)
(***************************************************************************)
Abs(v) == IF v < 0 THEN -v ELSE v

\* variant of Max without the clamp: the second argument as it is
Max_unclamped(a, b) == b

Max(a, b) == IF a >= b THEN a ELSE b

Min(a, b) == IF a <= b THEN a ELSE b

\* -velocity_y * bounce_damping
Reflect(v) ==
    LET m == (Abs(v) * BOUNCE_NUM) \div BOUNCE_DEN
    IN  IF v > 0 THEN -m ELSE m

(***************************************************************************)
(* Body.  A snapshot is a copy of these four fields.                       *)
(***************************************************************************)
PhysicsState(x, y) ==
    [x |-> x, y |-> y, velocity_y |-> 0, acceleration_y |-> 0]

\* variant of Integrate that moves the Body with the velocity it had before
\* the tick
Integrate_position_first(b, dt, is_at_rest, gravity) ==
    LET a == IF is_at_rest THEN 0 ELSE gravity
    IN  [b EXCEPT !.acceleration_y = a,
                  !.velocity_y = b.velocity_y + a * dt,
                  !.y = b.y + b.velocity_y * dt]

\* the acceleration is recomputed from the rest test, then velocity is
\* updated first and position second, with the updated velocity
Integrate(b, dt, is_at_rest, gravity) ==
    LET a == IF is_at_rest THEN 0 ELSE gravity
        v == b.velocity_y + a * dt
    IN  [b EXCEPT !.acceleration_y = a,
                  !.velocity_y = v,
                  !.y = b.y + v * dt]

\* variant of update_screen whose rest test looks at the velocity only
update_screen_rest_by_velocity(b, dt, ground_y) ==
    Integrate(b, dt, b.velocity_y = 0, GRAVITY)

\* screen coordinates: Ball.update before the collision check
update_screen(b, dt, ground_y) ==
    Integrate(b, dt, b.velocity_y = 0 /\ b.y + RADIUS >= ground_y, GRAVITY)

\* variant of check_ground_collision_screen that never snaps a small
\* post-bounce velocity to 0
check_ground_collision_screen_no_snap(b, ground_y) ==
    IF b.y + RADIUS >= ground_y
    THEN [b EXCEPT !.y = ground_y - RADIUS,
                   !.velocity_y = Reflect(b.velocity_y)]
    ELSE b

\* screen coordinates: Ball.check_ground_collision
check_ground_collision_screen(b, ground_y) ==
    IF b.y + RADIUS >= ground_y
    THEN LET v == Reflect(b.velocity_y)
         IN  [b EXCEPT !.y = ground_y - RADIUS,
                       !.velocity_y = IF Abs(v) < MIN_BOUNCE_VELOCITY THEN 0 ELSE v]
    ELSE b

\* variant of update_physics whose rest test needs the Body below the
\* ground surface
update_physics_strict_rest(b, dt) ==
    Integrate(b, dt, b.velocity_y = 0 /\ b.y < RADIUS, -GRAVITY)

\* physics coordinates: Ball.update (ground at y = 0, gravity negative)
update_physics(b, dt) ==
    Integrate(b, dt, b.velocity_y = 0 /\ b.y <= RADIUS, -GRAVITY)

\* variant of check_ground_collision_physics that reflects the velocity but
\* leaves the position where the integration put it
check_ground_collision_physics_unclamped(b) ==
    IF b.y <= RADIUS
    THEN LET v == Reflect(b.velocity_y)
         IN  [b EXCEPT !.velocity_y = IF Abs(v) < MIN_BOUNCE_VELOCITY THEN 0 ELSE v]
    ELSE b

\* physics coordinates: Ball.check_ground_collision
check_ground_collision_physics(b) ==
    IF b.y <= RADIUS
    THEN LET v == Reflect(b.velocity_y)
         IN  [b EXCEPT !.y = RADIUS,
                       !.velocity_y = IF Abs(v) < MIN_BOUNCE_VELOCITY THEN 0 ELSE v]
    ELSE b

\* src/src/physics.py Ball.update: integrates and resolves the collision
Ball_update(b, dt, ground_y) ==
    check_ground_collision_screen(update_screen(b, dt, ground_y), ground_y)

\* the Body a variant is constructed with
InitialBall(v) ==
    IF v = "web" THEN PhysicsState(BALL_X, PHYSICS_START_Y)
                 ELSE PhysicsState(BALL_X, SCREEN_START_Y)

(***************************************************************************)
(* The engine.  An operation is a function on a working record             *)
(*   [time, playing, auto, mode, ball, hist, thist, nreset, nticks]        *)
(* whose first seven fields are the program's fields and whose last two    *)
(* count the calls of reset() and the advancing ticks made since the       *)
(* operation began.                                                        *)
(***************************************************************************)

\* variant of deque_append that drops the newest stored entry when full
deque_append_drop_newest(q, e) ==
    IF Len(q) >= HistoryCap THEN Append(SubSeq(q, 1, Len(q) - 1), e)
                            ELSE Append(q, e)

\* deque(maxlen = HistoryCap).append : a full deque drops its oldest entry
deque_append(q, e) ==
    IF Len(q) >= HistoryCap THEN Append(Tail(q), e) ELSE Append(q, e)

\* TimeManager.save_state, and save_state of main.py and of the desktop copy
save_state_deque(s) ==
    [s EXCEPT !.hist = deque_append(s.hist, s.ball),
              !.thist = deque_append(s.thist, s.time)]

\* variant of save_state_list whose eviction forgets time_history.pop(0)
save_state_list_unpaired(s) ==
    LET h == IF Len(s.hist) >= HistoryCap THEN Tail(s.hist) ELSE s.hist
    IN  [s EXCEPT !.hist = Append(h, s.ball), !.thist = Append(s.thist, s.time)]

\* PhysicsSimulation.save_state of the web copy: list with pop(0) at capacity
save_state_list(s) ==
    LET h == IF Len(s.hist) >= HistoryCap THEN Tail(s.hist) ELSE s.hist
        t == IF Len(s.hist) >= HistoryCap THEN Tail(s.thist) ELSE s.thist
    IN  [s EXCEPT !.hist = Append(h, s.ball), !.thist = Append(t, s.time)]

save_state(v, s) ==
    IF v = "web" THEN save_state_list(s) ELSE save_state_deque(s)

\* variant of TM_reset that clears the history and leaves the time
TM_reset_keep_time(s) ==
    [s EXCEPT !.playing = FALSE, !.hist = <<>>, !.thist = <<>>,
              !.nreset = s.nreset + 1]

\* TimeManager.reset : time, play state and history; the Body is not touched
TM_reset(s) ==
    [s EXCEPT !.time = 0, !.playing = FALSE, !.hist = <<>>, !.thist = <<>>,
              !.nreset = s.nreset + 1]

\* main_refactored.py _reset_ball
reset_ball(s) ==
    [s EXCEPT !.ball = PhysicsState(BALL_X, SCREEN_START_Y)]

\* reset_simulation (main.py), reset (desktop copy, web copy)
Sim_reset(v, s) ==
    [s EXCEPT !.time = 0, !.playing = FALSE, !.ball = InitialBall(v),
              !.hist = <<>>, !.thist = <<>>, !.nreset = s.nreset + 1]

\* the reset() an operation of variant v calls on itself
reset(v, s) ==
    IF v = "tm" THEN TM_reset(s) ELSE Sim_reset(v, s)

\* TimeManager.pause
pause(s) ==
    IF s.playing THEN [s EXCEPT !.playing = FALSE] ELSE s

\* variant of auto_pause that pauses whatever the flag says
auto_pause_always(s) ==
    pause(s)

\* the closing  "if self.auto_pause_after_step: ..."  of a stepping operation
auto_pause(s) ==
    IF s.auto THEN pause(s) ELSE s

\* one advancing tick with step dt against the ground ground_y (screen
\* variants) : save_state, integrate, resolve collision, advance the time
tick(v, s, dt, ground_y) ==
    LET saved == save_state(v, s)
        b == IF v = "web"
             THEN check_ground_collision_physics(update_physics(saved.ball, dt))
             ELSE IF v = "tm"
                  THEN Ball_update(saved.ball, dt, ground_y)
                  ELSE check_ground_collision_screen(
                           update_screen(saved.ball, dt, ground_y), ground_y)
    IN  [saved EXCEPT !.ball = b, !.time = saved.time + dt,
                      !.nticks = saved.nticks + 1]

\* n ticks of size DT against the simulation's ground
RECURSIVE ticks(_, _, _)
ticks(v, s, n) ==
    IF n <= 0 THEN s ELSE ticks(v, tick(v, s, DT, GROUND_Y), n - 1)

\* the loop of TimeManager.step_forward_frames : the ground handed to
\* ball.update is the Body's own y at the time of the call
RECURSIVE TM_frame_ticks(_, _)
TM_frame_ticks(s, n) ==
    IF n <= 0 THEN s ELSE TM_frame_ticks(tick("tm", s, DT, s.ball.y), n - 1)

\* the loop of the desktop step_simulation_time : the last tick is cut to
\* the remaining time
RECURSIVE Desktop_advance(_, _)
Desktop_advance(s, target_time) ==
    IF s.time < target_time
    THEN Desktop_advance(
             tick("desktop", s, Min(DT, target_time - s.time), GROUND_Y),
             target_time)
    ELSE s

\* "for _ in range(k): if self.history and self.time_history: pop both"
RECURSIVE pop_frames(_, _)
pop_frames(s, k) ==
    IF k <= 0 THEN s
    ELSE IF Len(s.hist) > 0 /\ Len(s.thist) > 0
         THEN pop_frames([s EXCEPT !.hist = SubSeq(s.hist, 1, Len(s.hist) - 1),
                                   !.thist = SubSeq(s.thist, 1, Len(s.thist) - 1)],
                         k - 1)
         ELSE pop_frames(s, k - 1)

\* variant of restore_tail that restores the Body but not the time
restore_tail_body_only(s) ==
    IF Len(s.hist) > 0 /\ Len(s.thist) > 0
    THEN [s EXCEPT !.ball = s.hist[Len(s.hist)]]
    ELSE s

\* "if self.history and self.time_history: set_state(history[-1]) ..."
restore_tail(s) ==
    IF Len(s.hist) > 0 /\ Len(s.thist) > 0
    THEN [s EXCEPT !.ball = s.hist[Len(s.hist)], !.time = s.thist[Len(s.thist)]]
    ELSE s

\* variant of scan_nearest that also replaces the best candidate on an
\* equal distance
RECURSIVE scan_nearest_or_equal(_, _, _, _, _)
scan_nearest_or_equal(th, target_time, i, best_idx, best_diff) ==
    IF i > Len(th) THEN best_idx
    ELSE LET diff == Abs(th[i] - target_time)
         IN  IF diff <= best_diff
             THEN scan_nearest_or_equal(th, target_time, i + 1, i, diff)
             ELSE scan_nearest_or_equal(th, target_time, i + 1, best_idx, best_diff)

\* variant of scan_nearest that compares the signed difference
RECURSIVE scan_nearest_signed(_, _, _, _, _)
scan_nearest_signed(th, target_time, i, best_idx, best_diff) ==
    IF i > Len(th) THEN best_idx
    ELSE LET diff == th[i] - target_time
         IN  IF diff < best_diff
             THEN scan_nearest_signed(th, target_time, i + 1, i, diff)
             ELSE scan_nearest_signed(th, target_time, i + 1, best_idx, best_diff)

\* the scan of rewind_to_time from index i on: the best candidate is
\* replaced only by a strictly smaller distance
RECURSIVE scan_nearest(_, _, _, _, _)
scan_nearest(th, target_time, i, best_idx, best_diff) ==
    IF i > Len(th) THEN best_idx
    ELSE LET diff == Abs(th[i] - target_time)
         IN  IF diff < best_diff
             THEN scan_nearest(th, target_time, i + 1, i, diff)
             ELSE scan_nearest(th, target_time, i + 1, best_idx, best_diff)

\* best_idx of rewind_to_time, counted from 1 (th is not empty)
nearest(th, target_time) ==
    scan_nearest(th, target_time, 1, 1, Abs(th[1] - target_time))

\* variant of rewind_pop that pops one entry more than len - best_idx - 1
rewind_pop_one_more(v, s, target_time) ==
    IF Len(s.thist) = 0 THEN reset(v, s)
    ELSE LET best_idx == nearest(s.thist, target_time)
             frames_to_rewind == Len(s.hist) - best_idx + 1
         IN  restore_tail(pop_frames(s, frames_to_rewind))

\* rewind_to_time of TimeManager, main.py and the desktop copy: pop from the tail
rewind_pop(v, s, target_time) ==
    IF Len(s.thist) = 0 THEN reset(v, s)
    ELSE LET best_idx == nearest(s.thist, target_time)
             frames_to_rewind == Len(s.hist) - best_idx
         IN  restore_tail(pop_frames(s, frames_to_rewind))

\* variant of rewind_slice that restores without truncating the history
rewind_slice_keep_future(s, target_time) ==
    IF Len(s.thist) = 0 THEN reset("web", s)
    ELSE LET best_idx == nearest(s.thist, target_time)
         IN  IF best_idx <= Len(s.hist)
             THEN [s EXCEPT !.ball = s.hist[best_idx],
                            !.time = s.thist[best_idx]]
             ELSE s

\* rewind_to_time of the web copy: restore, then truncate by slicing
rewind_slice(s, target_time) ==
    IF Len(s.thist) = 0 THEN reset("web", s)
    ELSE LET best_idx == nearest(s.thist, target_time)
         IN  IF best_idx <= Len(s.hist)
             THEN [s EXCEPT !.ball = s.hist[best_idx],
                            !.time = s.thist[best_idx],
                            !.hist = SubSeq(s.hist, 1, best_idx),
                            !.thist = SubSeq(s.thist, 1, best_idx)]
             ELSE s

rewind_to_time(v, s, target_time) ==
    IF v = "web" THEN rewind_slice(s, target_time)
                 ELSE rewind_pop(v, s, target_time)

(***************************************************************************)
(* Operations of TimeManager (src/src/time_manager.py).                    *)
(***************************************************************************)
TM_step_forward_frames(s, frame_count) ==
    IF frame_count <= 0 THEN s
    ELSE auto_pause(TM_frame_ticks(s, frame_count))

\* variant of TM_step_forward_time that reads the amount as a frame count
\* when step_mode is FRAMES
TM_step_forward_time_by_mode(s, time_amount) ==
    IF time_amount <= 0 THEN s
    ELSE auto_pause(ticks("tm", s, IF s.mode = "frames" THEN time_amount
                                   ELSE time_amount \div DT))

TM_step_forward_time(s, time_amount) ==
    IF time_amount <= 0 THEN s
    ELSE auto_pause(ticks("tm", s, time_amount \div DT))

TM_step_backward_frames(s, frame_count) ==
    IF frame_count <= 0 THEN s
    ELSE LET popped == pop_frames(s, Min(frame_count, Len(s.hist)))
         IN  auto_pause(IF Len(popped.hist) > 0 /\ Len(popped.thist) > 0
                        THEN restore_tail(popped)
                        ELSE TM_reset(popped))

TM_step_backward_time(s, time_amount) ==
    IF time_amount <= 0 THEN s
    ELSE LET target_time == Max(0, s.time - time_amount)
         IN  auto_pause(IF target_time = 0
                        THEN TM_reset(s)
                        ELSE rewind_pop("tm", s, target_time))

\* variant of TM_jump_to_time that steps forward by the target itself, not
\* by its distance from the current time
TM_jump_to_time_absolute(s, target_time) ==
    IF target_time < 0 THEN s
    ELSE auto_pause(
             IF target_time < s.time
             THEN IF target_time = 0 THEN TM_reset(s)
                                     ELSE rewind_pop("tm", s, target_time)
             ELSE IF target_time > s.time
                  THEN TM_step_forward_time(s, target_time)
                  ELSE s)

TM_jump_to_time(s, target_time) ==
    IF target_time < 0 THEN s
    ELSE auto_pause(
             IF target_time < s.time
             THEN IF target_time = 0 THEN TM_reset(s)
                                     ELSE rewind_pop("tm", s, target_time)
             ELSE IF target_time > s.time
                  THEN TM_step_forward_time(s, target_time - s.time)
                  ELSE s)

(***************************************************************************)
(* Operations of the PhysicsSimulation copies (main.py, desktop, web).     *)
(***************************************************************************)
Sim_step_simulation_frames(v, s, frame_count) ==
    auto_pause(
        IF frame_count > 0 THEN ticks(v, s, frame_count)
        ELSE IF frame_count < 0
             THEN LET popped == pop_frames(s, Min(Abs(frame_count), Len(s.hist)))
                  IN  IF Len(popped.hist) > 0 /\ Len(popped.thist) > 0
                      THEN restore_tail(popped)
                      ELSE Sim_reset(v, popped)
             ELSE s)

\* forward part of step_simulation_time: floor(time_step / dt) whole ticks
\* in main.py and the web copy, a loop up to the target in the desktop copy
Sim_forward(v, s, time_step) ==
    IF v = "desktop" THEN Desktop_advance(s, s.time + time_step)
                     ELSE ticks(v, s, time_step \div DT)

\* the web copy has no auto-pause flag and ends without the closing pause
Sim_step_simulation_time(v, s, time_step) ==
    LET r == IF time_step > 0 THEN Sim_forward(v, s, time_step)
             ELSE IF time_step < 0
                  THEN LET target_time == Max(0, s.time + time_step)
                       IN  IF target_time = 0 THEN Sim_reset(v, s)
                           ELSE rewind_to_time(v, s, target_time)
                  ELSE s
    IN  IF v = "web" THEN r ELSE auto_pause(r)

\* jump_to_time of main.py and of the desktop copy (which clamps a
\* negative target to 0)
Sim_jump_to_time(v, s, target) ==
    LET target_time == IF v = "desktop" /\ target < 0 THEN 0 ELSE target
    IN  auto_pause(
            IF target_time < s.time
            THEN IF target_time = 0 THEN Sim_reset(v, s)
                                    ELSE rewind_to_time(v, s, target_time)
            ELSE IF target_time > s.time
                 THEN Sim_step_simulation_time(v, s, target_time - s.time)
                 ELSE s)

(***************************************************************************)
(* The operations as a caller invokes them on variant v.                   *)
(***************************************************************************)
step_forward_frames(v, s, n) ==
    IF v = "tm" THEN TM_step_forward_frames(s, n)
                ELSE Sim_step_simulation_frames(v, s, n)

step_backward_frames(v, s, n) ==
    IF v = "tm" THEN TM_step_backward_frames(s, n)
                ELSE Sim_step_simulation_frames(v, s, -n)

step_forward_time(v, s, amount) ==
    IF v = "tm" THEN TM_step_forward_time(s, amount)
                ELSE Sim_step_simulation_time(v, s, amount)

step_backward_time(v, s, amount) ==
    IF v = "tm" THEN TM_step_backward_time(s, amount)
                ELSE Sim_step_simulation_time(v, s, -amount)

jump_to_time(v, s, target_time) ==
    IF v = "tm" THEN TM_jump_to_time(s, target_time)
                ELSE Sim_jump_to_time(v, s, target_time)

\* the reset a user triggers: _reset_simulation in main_refactored.py
\* (TimeManager.reset, then _reset_ball), reset_simulation / reset elsewhere
user_reset(v, s) ==
    IF v = "tm" THEN reset_ball(TM_reset(s)) ELSE Sim_reset(v, s)

\* the play loop's tick: _update (main_refactored.py), run (main.py), update
play_tick(v, s) ==
    IF s.playing THEN tick(v, s, DT, GROUND_Y) ELSE s

toggle_play_pause(s) ==
    [s EXCEPT !.playing = ~s.playing]

set_auto_pause(s, enabled) ==
    [s EXCEPT !.auto = enabled]

\* TimeManager.set_step_mode
set_step_mode(s, mode) ==
    [s EXCEPT !.mode = mode]

\* TimeManager.toggle_step_mode
toggle_step_mode(s) ==
    IF s.mode = "frames" THEN set_step_mode(s, "seconds")
                         ELSE set_step_mode(s, "frames")

(***************************************************************************)
(* Objects and references.  Python passes objects by reference: a stored   *)
(* snapshot is an object of its own only if get_state / set_state copy.    *)
(* A heap record [heap, ref, refs] holds the objects by identity, the      *)
(* identity of the object that carries the live Body's fields              *)
(* (ball.state in physics.py, the Ball itself in the other copies) and     *)
(* the identities stored in the history.                                   *)
(***************************************************************************)
\* identities: one per history entry, the live one, one being created
ObjectIds == 1 .. (HistoryCap + 2)

Range(q) == {q[i] : i \in 1 .. Len(q)}

\* identity of a newly created object
Fresh(m) ==
    CHOOSE id \in ObjectIds :
        /\ id \notin DOMAIN m.heap
        /\ \A other \in ObjectIds \ DOMAIN m.heap : id <= other

\* reference counting: objects that nothing refers to cease to exist
Collect(m) ==
    [m EXCEPT !.heap = [id \in ({m.ref} \cup Range(m.refs)) |-> m.heap[id]]]

\* PhysicsState.copy, and the tuple / dict built by get_state of the other
\* copies: a new object with the fields of object id
Heap_copy(m, id) ==
    [m EXCEPT !.heap = [o \in (DOMAIN m.heap) \cup {Fresh(m)} |->
                            IF o = Fresh(m) THEN m.heap[id] ELSE m.heap[o]]]

\* save_state: history.append(ball.get_state())
Heap_save_state(m) ==
    LET id == Fresh(m)
        copied == Heap_copy(m, m.ref)
    IN  Collect([copied EXCEPT !.refs = deque_append(m.refs, id)])

\* one step of the Body of variant v
Body_step(v, b, dt, ground_y) ==
    IF v = "web"
    THEN check_ground_collision_physics(update_physics(b, dt))
    ELSE IF v = "tm"
         THEN Ball_update(b, dt, ground_y)
         ELSE check_ground_collision_screen(update_screen(b, dt, ground_y),
                                            ground_y)

\* ball.update / check_ground_collision: the fields of the live object are
\* assigned in place
Heap_update(v, m, dt, ground_y) ==
    [m EXCEPT !.heap[m.ref] = Body_step(v, m.heap[m.ref], dt, ground_y)]

\* variant of Heap_set_state that binds the stored object itself
Heap_set_state_alias(v, m, id) ==
    IF v = "tm" THEN Collect([m EXCEPT !.ref = id])
                ELSE [m EXCEPT !.heap[m.ref] = m.heap[id]]

\* set_state: physics.py binds self.state to a copy of the stored object,
\* the other copies assign the stored fields to the Ball's own fields
Heap_set_state(v, m, id) ==
    IF v = "tm"
    THEN LET copied == Heap_copy(m, id)
         IN  Collect([copied EXCEPT !.ref = Fresh(m)])
    ELSE [m EXCEPT !.heap[m.ref] = m.heap[id]]

\* the reset() an operation of variant v calls on itself: TimeManager.reset
\* clears the history, the others also assign the Ball's fields
Heap_reset(v, m) ==
    LET cleared == [m EXCEPT !.refs = <<>>]
    IN  Collect(IF v = "tm" THEN cleared
                ELSE [cleared EXCEPT !.heap[m.ref] = InitialBall(v)])

\* _reset_simulation / reset_simulation / reset as the user triggers it:
\* _reset_ball assigns the fields of ball.state in place
Heap_user_reset(v, m) ==
    Collect([m EXCEPT !.refs = <<>>, !.heap[m.ref] = InitialBall(v)])

\* one advancing tick: save_state, then the in-place update
Heap_tick(v, m, dt, ground_y) ==
    Heap_update(v, Heap_save_state(m), dt, ground_y)

\* rewind_to_time on the objects; th is time_history (numbers, not objects)
Heap_rewind_to_time(v, m, th, target_time) ==
    IF Len(th) = 0 THEN Heap_reset(v, m)
    ELSE LET best_idx == nearest(th, target_time)
             kept == [m EXCEPT !.refs = SubSeq(m.refs, 1, best_idx)]
         IN  IF v = "web"
             THEN LET restored == Heap_set_state(v, m, m.refs[best_idx])
                  IN  Collect([restored EXCEPT !.refs = kept.refs])
             ELSE Collect(Heap_set_state(v, kept, kept.refs[Len(kept.refs)]))

(***************************************************************************)
(* State machine.                                                          *)
(***************************************************************************)
\* the program state as a working record
Cur ==
    [time |-> simulation_time, playing |-> is_playing,
     auto |-> auto_pause_after_step, mode |-> step_mode, ball |-> ball,
     hist |-> history, thist |-> time_history,
     nreset |-> 0, nticks |-> 0]

NoTrip ==
    [n |-> 0, time |-> 0, ball |-> PhysicsState(0, 0), enough |-> FALSE,
     done |-> FALSE]

FrameArgs == 0 .. MaxFrames

AmountArgs == 0 .. MaxAmount

TargetArgs == -1 .. MaxTime

\* the objects after construction: the live Body only
InitialHeap(v) ==
    [heap |-> [id \in {1} |-> InitialBall(v)], ref |-> 1, refs |-> <<>>]

\* the objects of the current state as a heap record
CurHeap ==
    [heap |-> heap, ref |-> state_ref, refs |-> history_refs]

(***************************************************************************)
(* A pair of Bodies ticked on its own: one in screen coordinates (ground   *)
(* at GROUND_Y, y grows downward) and its mirror image in physics          *)
(* coordinates (ground at 0, y grows upward).                              *)
(***************************************************************************)
\* release heights, as the y of the physics-coordinate Body
StartYs == {RADIUS + DROP_STEP * k : k \in 1 .. MaxDrops}

\* Ball(x, y) in both coordinate systems, velocity and acceleration 0
BallPairInit(y) ==
    /\ screen_ball = PhysicsState(BALL_X, GROUND_Y - y)
    /\ physics_ball = PhysicsState(BALL_X, y)
    /\ last_tick = [dt |-> 0, n |-> 0,
                    screen |-> PhysicsState(BALL_X, GROUND_Y - y),
                    physics |-> PhysicsState(BALL_X, y)]

\* variant of get_energy without abs() around the gravity
get_energy_signed(b, coordinate_system, ground_y) ==
    LET gravity == IF coordinate_system = "physics" THEN -GRAVITY ELSE GRAVITY
        height_above_ground ==
            IF coordinate_system = "physics" THEN Max(0, b.y - RADIUS)
            ELSE Max(0, ground_y - (b.y + RADIUS))
        kinetic == BALL_MASS * b.velocity_y * b.velocity_y
        potential == 2 * BALL_MASS * gravity * height_above_ground
    IN  [kinetic |-> kinetic, potential |-> potential,
         total |-> kinetic + potential]

\* Ball.get_energy, in units of half an energy unit: kinetic is
\* 0.5 * mass * velocity_y ** 2, potential is mass * abs(gravity) * height
get_energy(b, coordinate_system, ground_y) ==
    LET gravity == IF coordinate_system = "physics" THEN -GRAVITY ELSE GRAVITY
        height_above_ground ==
            IF coordinate_system = "physics" THEN Max(0, b.y - RADIUS)
            ELSE Max(0, ground_y - (b.y + RADIUS))
        kinetic == BALL_MASS * b.velocity_y * b.velocity_y
        potential == 2 * BALL_MASS * Abs(gravity) * height_above_ground
    IN  [kinetic |-> kinetic, potential |-> potential,
         total |-> kinetic + potential]

(***************************************************************************)
(* The web server (server.py).  simulations maps a session id to the       *)
(* PhysicsSimulation object created for it; the objects live in sims.  A   *)
(* simulation is a working record of the web copy; its nticks field counts *)
(* the advancing ticks since its last initial state.  Command handlers run *)
(* in the server's threads, update_simulations in a thread of its own.     *)
(***************************************************************************)
SessionIds == {"a", "b"}

\* identities of PhysicsSimulation objects: one per session and one that
\* the update thread may still hold after its session is gone
SimIds == 1 .. (Cardinality(SessionIds) + 1)

\* PhysicsSimulation()
NewSimulation ==
    [time |-> 0, playing |-> FALSE, auto |-> FALSE, mode |-> "seconds",
     ball |-> InitialBall("web"), hist |-> <<>>, thist |-> <<>>,
     nreset |-> 0, nticks |-> 0]

\* the simulation an operation leaves in its object
Stored(r) ==
    [r EXCEPT !.nreset = 0,
              !.nticks = IF r.time = 0 /\ r.hist = <<>>
                            /\ r.ball = InitialBall("web")
                         THEN 0 ELSE r.nticks]

\* variant of NewSimId that hands out an object already in use, if any
NewSimId_shared(store) ==
    IF DOMAIN store = {} THEN 1
    ELSE CHOOSE id \in DOMAIN store : \A other \in DOMAIN store : id <= other

\* the identity of the object a constructor call creates
NewSimId(store) ==
    CHOOSE id \in SimIds \ DOMAIN store :
        \A other \in SimIds \ DOMAIN store : id <= other

\* the entries of a registry: no session
NoItems == [sid \in {} |-> 1]

\* the objects still referred to: by a session or by the update thread, which
\* holds the simulation it works on and those of the copy it iterates over
LiveSims(sessions, store, thread) ==
    LET held == {sessions[sid] : sid \in DOMAIN sessions}
                    \cup {thread.items[sid] : sid \in DOMAIN thread.items}
                    \cup (IF thread.pc \in {"idle", "for"} THEN {} ELSE {thread.sim})
    IN  [id \in DOMAIN store \cap held |-> store[id]]

\* the update thread between two passes (time.sleep)
IdleDriver == [pc |-> "idle", sid |-> "a", sim |-> 1, items |-> NoItems]

\* the update thread at the head of "for sid, simulation in ...", with the
\* entries of the copy it has not visited yet
ForDriver(items) == [pc |-> "for", sid |-> "a", sim |-> 1, items |-> items]

\* the statements of PhysicsSimulation.update after its test of is_playing,
\* those of save_state included
TickPcs ==
    {"save_state", "pop_history", "pop_time_history", "append_history",
     "append_time_history", "ball_update", "check_ground_collision",
     "advance_time"}

\* the update thread is inside PhysicsSimulation.update, past its test of
\* is_playing
InTick(thread) == thread.pc \in TickPcs

\* where the update thread stands in the tick of the object id
During(id) == IF InTick(driver) /\ driver.sim = id THEN driver.pc ELSE "idle"

\* what a client sends with a 'step' message: a dict whose time_step is a
\* number, a text that is no number, or null; a dict without time_step; a
\* payload that is no dict
StepData ==
    {[kind |-> "number", value |-> a] : a \in (-MaxStep) .. MaxStep}
        \cup {[kind |-> k, value |-> 0] :
                  k \in {"text", "null", "no_key", "no_dict"}}

\* the payloads whose value cannot be parsed as a number
Unparsable == {"text", "null", "no_dict"}

\* variant of float_time_step that reads a text that is no number as one
\* time step
float_time_step_lenient(data) ==
    IF data.kind \in {"number"} THEN [raised |-> "none", value |-> data.value]
    ELSE IF data.kind = "no_key"
         THEN [raised |-> "none", value |-> TARGET_FPS * DT]
         ELSE IF data.kind = "text" THEN [raised |-> "none", value |-> DT]
              ELSE IF data.kind = "null"
                   THEN [raised |-> "TypeError", value |-> 0]
                   ELSE [raised |-> "AttributeError", value |-> 0]

\* float(data.get('time_step', 1.0)) : the number, the default of one
\* second, or the exception raised
float_time_step(data) ==
    IF data.kind = "number" THEN [raised |-> "none", value |-> data.value]
    ELSE IF data.kind = "no_key"
         THEN [raised |-> "none", value |-> TARGET_FPS * DT]
         ELSE IF data.kind = "text"
              THEN [raised |-> "ValueError", value |-> 0]
              ELSE IF data.kind = "null"
                   THEN [raised |-> "TypeError", value |-> 0]
                   ELSE [raised |-> "AttributeError", value |-> 0]

\* save_state raises IndexError: the history is at max_history and there is
\* no time to pop (self.history.pop(0) has run, self.time_history.pop(0)
\* fails)
save_state_raises(s) == Len(s.hist) >= HistoryCap /\ Len(s.thist) = 0

\* the body of handle_step on the session's simulation: the stepped
\* simulation and a 'simulation_state' message, or the simulation as it was
\* and a logged warning (ValueError, TypeError) or error (any other
\* exception), both with an 'error' message; an IndexError of the first
\* save_state of a forward step leaves the history without its oldest
\* snapshot
handle_step(simulation, data) ==
    LET time_step == float_time_step(data)
    IN  IF time_step.raised = "none"
        THEN IF time_step.value >= DT /\ save_state_raises(simulation)
             THEN [sim |-> [simulation EXCEPT !.hist = Tail(@)],
                   outcome |-> "error"]
             ELSE [sim |-> Sim_step_simulation_time("web", simulation,
                                                    time_step.value),
                   outcome |-> "simulation_state"]
        ELSE IF time_step.raised \in {"ValueError", "TypeError"}
             THEN [sim |-> simulation, outcome |-> "warning"]
             ELSE [sim |-> simulation, outcome |-> "error"]

\* the methods of PhysicsSimulation in physics_engine.py, the class the
\* server imports
PhysicsSimulationMethods ==
    {"get_viewport_bounds", "physics_to_canvas_y", "canvas_to_physics_y",
     "update", "save_state", "get_state", "toggle_play_pause", "reset",
     "step_simulation_time", "rewind_to_time"}

\* the start heights a client sends with 'set_start_y'
StartYArgs == {PHYSICS_START_Y \div 2, PHYSICS_START_Y, 2 * PHYSICS_START_Y}

\* set_ball_start_position of the desktop copy: the Body at (x, y) with zero
\* velocity and acceleration, time 0, paused, history cleared
set_ball_start_position(s, x, y) ==
    [s EXCEPT !.time = 0, !.playing = FALSE, !.ball = PhysicsState(x, y),
              !.hist = <<>>, !.thist = <<>>]

\* the body of handle_set_start_y: simulation.set_start_y(start_y) looks the
\* method up on the simulation; a missing attribute raises AttributeError,
\* which "except Exception" turns into a logged error and an 'error' message
handle_set_start_y(simulation, start_y) ==
    IF "set_start_y" \in PhysicsSimulationMethods
    THEN [sim |-> set_ball_start_position(simulation, BALL_X, start_y),
          outcome |-> "simulation_state"]
    ELSE [sim |-> simulation, outcome |-> "error"]

ServerInit ==
    /\ simulations = [sid \in {} |-> 1]
    /\ sims = [id \in {} |-> NewSimulation]
    /\ driver = IdleDriver
    /\ server_last = [op |-> "init", sid |-> "a", during |-> "idle",
                      malformed |-> FALSE, outcome |-> "none"]

\* the engine after construction
EngineInit ==
    /\ variant \in Variants
    /\ simulation_time = 0
    /\ is_playing = FALSE
    /\ auto_pause_after_step = FALSE
    /\ step_mode = "seconds"
    /\ ball = InitialBall(variant)
    /\ history = <<>>
    /\ time_history = <<>>
    /\ heap = InitialHeap(variant).heap
    /\ state_ref = InitialHeap(variant).ref
    /\ history_refs = InitialHeap(variant).refs
    /\ last = [op |-> "init", arg |-> 0, t0 |-> 0, nreset |-> 0, nticks |-> 0]
    /\ ticks_used = 0
    /\ round_trip = NoTrip

Init ==
    /\ EngineInit
    /\ BallPairInit(PHYSICS_START_Y)
    /\ ServerInit

\* the program's fields after an operation that led to r, and its record
CommitFields(op, arg, r) ==
    /\ ticks_used' = IF r.time = 0 /\ r.ball = InitialBall(variant) /\ r.hist = <<>>
                      THEN 0 ELSE ticks_used + r.nticks
    /\ ticks_used' <= MaxTicks
    /\ simulation_time' = r.time
    /\ is_playing' = r.playing
    /\ auto_pause_after_step' = r.auto
    /\ step_mode' = r.mode
    /\ ball' = r.ball
    /\ history' = r.hist
    /\ time_history' = r.thist
    /\ last' = [op |-> op, arg |-> arg, t0 |-> simulation_time,
                nreset |-> r.nreset, nticks |-> r.nticks]
    /\ UNCHANGED <<variant, ballvars>>

\* an operation followed by value: the objects are not tracked
Commit(op, arg, r) ==
    /\ CommitFields(op, arg, r)
    /\ UNCHANGED <<heap, state_ref, history_refs>>
    /\ UNCHANGED servervars

\* the objects after an operation that led to the heap record m
CommitHeap(m) ==
    /\ heap' = m.heap
    /\ state_ref' = m.ref
    /\ history_refs' = m.refs
    /\ UNCHANGED servervars

TogglePlayPause ==
    /\ Commit("toggle_play_pause", 0, toggle_play_pause(Cur))
    /\ round_trip' = NoTrip

SetAutoPause ==
    /\ variant # "web"
    /\ \E enabled \in BOOLEAN :
           Commit("set_auto_pause", IF enabled THEN 1 ELSE 0,
                  set_auto_pause(Cur, enabled))
    /\ round_trip' = NoTrip

\* step_mode is a field of TimeManager; the other copies keep the unit in
\* their GUI
ToggleStepMode ==
    /\ variant = "tm"
    /\ Commit("toggle_step_mode", 0, toggle_step_mode(Cur))
    /\ round_trip' = NoTrip

Update ==
    /\ is_playing
    /\ Commit("update", 0, play_tick(variant, Cur))
    /\ round_trip' = NoTrip

Reset ==
    /\ Commit("reset", 0, user_reset(variant, Cur))
    /\ round_trip' = NoTrip

StepForwardFrames ==
    /\ variant # "web"
    /\ \E n \in FrameArgs :
           /\ Commit("step_forward_frames", n, step_forward_frames(variant, Cur, n))
           /\ round_trip' = IF n > 0
                            THEN [n |-> n, time |-> simulation_time, ball |-> ball,
                                  enough |-> FALSE, done |-> FALSE]
                            ELSE NoTrip

StepBackwardFrames ==
    /\ variant # "web"
    /\ \E n \in FrameArgs :
           /\ Commit("step_backward_frames", n, step_backward_frames(variant, Cur, n))
           /\ round_trip' = IF round_trip.n = n /\ n > 0 /\ ~round_trip.done
                            THEN [round_trip EXCEPT !.done = TRUE,
                                                    !.enough = Len(history) >= n]
                            ELSE NoTrip

StepForwardTime ==
    /\ \E amount \in AmountArgs :
           Commit("step_forward_time", amount, step_forward_time(variant, Cur, amount))
    /\ round_trip' = NoTrip

StepBackwardTime ==
    /\ \E amount \in AmountArgs :
           Commit("step_backward_time", amount, step_backward_time(variant, Cur, amount))
    /\ round_trip' = NoTrip

JumpToTime ==
    /\ variant # "web"
    /\ \E target \in TargetArgs :
           Commit("jump_to_time", target, jump_to_time(variant, Cur, target))
    /\ round_trip' = NoTrip

RewindToTime ==
    /\ \E target \in TargetArgs :
           Commit("rewind_to_time", target, rewind_to_time(variant, Cur, target))
    /\ round_trip' = NoTrip

Next ==
    \/ TogglePlayPause
    \/ SetAutoPause
    \/ ToggleStepMode
    \/ Update
    \/ Reset
    \/ JumpToTime
    \/ StepForwardFrames
    \/ StepBackwardFrames
    \/ StepForwardTime
    \/ StepBackwardTime
    \/ RewindToTime

Spec == Init /\ [][Next]_vars

(***************************************************************************)
(* The same operations followed by reference: each action performs the     *)
(* operation on the values and on the objects.                             *)
(***************************************************************************)
HeapStepForwardTime ==
    /\ CommitFields("step_forward_time", DT, step_forward_time(variant, Cur, DT))
    /\ CommitHeap(Heap_tick(variant, CurHeap, DT, GROUND_Y))
    /\ round_trip' = NoTrip

HeapRewindToTime ==
    /\ \E target \in TargetArgs :
           /\ CommitFields("rewind_to_time", target,
                           rewind_to_time(variant, Cur, target))
           /\ CommitHeap(Heap_rewind_to_time(variant, CurHeap, time_history,
                                             target))
    /\ round_trip' = NoTrip

HeapReset ==
    /\ CommitFields("reset", 0, user_reset(variant, Cur))
    /\ CommitHeap(Heap_user_reset(variant, CurHeap))
    /\ round_trip' = NoTrip

HeapNext ==
    \/ HeapStepForwardTime
    \/ HeapRewindToTime
    \/ HeapReset

HeapSpec == Init /\ [][HeapNext]_vars

(***************************************************************************)
(* The pair of Bodies under ticks.  A tick is update followed by           *)
(* check_ground_collision, as every driver calls them; last_tick keeps the *)
(* Bodies as update left them, before the collision was resolved.          *)
(***************************************************************************)
PairTick(dt) ==
    /\ screen_ball' = check_ground_collision_screen(
                          update_screen(screen_ball, dt, GROUND_Y), GROUND_Y)
    /\ physics_ball' = check_ground_collision_physics(
                           update_physics(physics_ball, dt))
    /\ last_tick' = [dt |-> dt, n |-> Min(last_tick.n + 1, MaxBallTicks),
                     screen |-> update_screen(screen_ball, dt, GROUND_Y),
                     physics |-> update_physics(physics_ball, dt)]
    /\ UNCHANGED <<enginevars, servervars>>

\* a tick of the driver: the time step is dt
BallTick == PairTick(DT)

\* the last tick of the desktop step_simulation_time: the time step is what
\* remains of the requested amount, less than dt
BallCutTick == \E dt \in 1 .. (DT - 1) : PairTick(dt)

\* a pair of Bodies released at rest above the ground
BallInit ==
    /\ EngineInit
    /\ variant = "desktop"
    /\ \E y \in StartYs : BallPairInit(y)
    /\ ServerInit

BallNext ==
    \/ BallTick
    \/ BallCutTick

BallSpec == BallInit /\ [][BallNext]_vars

\* the driver alone: every tick has the time step dt and a tick is always
\* made again
BallFairSpec == BallInit /\ [][BallTick]_vars /\ WF_vars(BallTick)

(***************************************************************************)
(* The server's handlers and its update thread.  A handler is one step; a  *)
(* pass of the update thread over one session is a sequence of steps, one  *)
(* per statement of PhysicsSimulation.update: the code holds no lock, so   *)
(* a handler's thread can run between any two of them.                     *)
(***************************************************************************)
Note(op, sid, id, malformed, outcome) ==
    server_last' = [op |-> op, sid |-> sid, during |-> During(id),
                    malformed |-> malformed, outcome |-> outcome]

\* the object store after the object id was assigned the simulation r
Assign(id, r) == [sims EXCEPT ![id] = Stored(r)]

HandleConnect(sid) ==
    /\ sid \notin DOMAIN simulations
    /\ LET id == NewSimId(sims)
       IN  /\ simulations' = [x \in DOMAIN simulations \cup {sid} |->
                                 IF x = sid THEN id ELSE simulations[x]]
           /\ sims' = [x \in DOMAIN sims \cup {id} |->
                          IF x = id THEN NewSimulation ELSE sims[x]]
           /\ Note("connect", sid, id, FALSE, "simulation_state")
    /\ UNCHANGED <<driver, enginevars, ballvars>>

HandleDisconnect(sid) ==
    /\ sid \in DOMAIN simulations
    /\ simulations' = [x \in DOMAIN simulations \ {sid} |-> simulations[x]]
    /\ sims' = LiveSims(simulations', sims, driver)
    /\ Note("disconnect", sid, simulations[sid], FALSE, "none")
    /\ UNCHANGED <<driver, enginevars, ballvars>>

HandleTogglePlay(sid) ==
    /\ sid \in DOMAIN simulations
    /\ sims' = Assign(simulations[sid], toggle_play_pause(sims[simulations[sid]]))
    /\ Note("toggle_play", sid, simulations[sid], FALSE, "simulation_state")
    /\ UNCHANGED <<simulations, driver, enginevars, ballvars>>

HandleReset(sid) ==
    /\ sid \in DOMAIN simulations
    /\ sims' = Assign(simulations[sid], Sim_reset("web", sims[simulations[sid]]))
    /\ Note("reset", sid, simulations[sid], FALSE, "simulation_state")
    /\ UNCHANGED <<simulations, driver, enginevars, ballvars>>

HandleStep(sid) ==
    /\ sid \in DOMAIN simulations
    /\ \E data \in StepData :
           LET id == simulations[sid]
               time_step == float_time_step(data)
           IN  /\ (time_step.raised = "none" /\ time_step.value > 0)
                      => sims[id].nticks + time_step.value \div DT
                             <= MaxSessionTicks
               /\ sims' = Assign(id, handle_step(sims[id], data).sim)
               /\ Note("step", sid, id, data.kind \in Unparsable,
                       handle_step(sims[id], data).outcome)
    /\ UNCHANGED <<simulations, driver, enginevars, ballvars>>

HandleSetStartY(sid) ==
    /\ sid \in DOMAIN simulations
    /\ \E start_y \in StartYArgs :
           LET id == simulations[sid]
           IN  /\ sims' = Assign(id, handle_set_start_y(sims[id], start_y).sim)
               /\ Note("set_start_y", sid, id, FALSE,
                       handle_set_start_y(sims[id], start_y).outcome)
    /\ UNCHANGED <<simulations, driver, enginevars, ballvars>>

\* update_simulations: a pass begins with list(simulations.items())
DriverSnapshot ==
    /\ driver.pc = "idle"
    /\ driver' = ForDriver(simulations)
    /\ Note("update", driver.sid, driver.sim, FALSE, "none")
    /\ UNCHANGED <<simulations, sims, enginevars, ballvars>>

\* "for sid, simulation in ...: if simulation.is_playing:" : the next entry
\* of the copy (in the order of the registry, which is the order of
\* connection and left open here), or the end of the pass and time.sleep
DriverPick ==
    /\ driver.pc = "for"
    /\ IF DOMAIN driver.items = {}
       THEN /\ driver' = IdleDriver
            /\ sims' = LiveSims(simulations, sims, driver')
       ELSE \E sid \in DOMAIN driver.items :
                LET rest == [x \in DOMAIN driver.items \ {sid} |-> driver.items[x]]
                    id == driver.items[sid]
                IN  /\ sims[id].playing => sims[id].nticks < MaxSessionTicks
                    /\ driver' = IF sims[id].playing
                                 THEN [pc |-> "call_update", sid |-> sid,
                                       sim |-> id, items |-> rest]
                                 ELSE ForDriver(rest)
                    /\ sims' = LiveSims(simulations, sims, driver')
    /\ Note("update", driver.sid, driver.sim, FALSE, "none")
    /\ UNCHANGED <<simulations, enginevars, ballvars>>

\* PhysicsSimulation.update: "if self.is_playing:" ; a simulation that is
\* not playing returns its state, which is emitted
DriverEnter ==
    /\ driver.pc = "call_update"
    /\ driver' = IF sims[driver.sim].playing
                 THEN [driver EXCEPT !.pc = "save_state"]
                 ELSE ForDriver(driver.items)
    /\ sims' = LiveSims(simulations, sims, driver')
    /\ Note("update", driver.sid, driver.sim, FALSE,
            IF sims[driver.sim].playing THEN "none" ELSE "simulation_state")
    /\ UNCHANGED <<simulations, enginevars, ballvars>>

\* save_state: "if len(self.history) >= self.max_history:"
DriverCapacityTest ==
    /\ driver.pc = "save_state"
    /\ driver' = [driver EXCEPT !.pc =
                     IF Len(sims[driver.sim].hist) >= HistoryCap
                     THEN "pop_history" ELSE "append_history"]
    /\ Note("update", driver.sid, driver.sim, FALSE, "none")
    /\ UNCHANGED <<simulations, sims, enginevars, ballvars>>

\* self.history.pop(0) : IndexError on an empty list
DriverPopHistory ==
    /\ driver.pc = "pop_history"
    /\ IF sims[driver.sim].hist = <<>>
       THEN /\ driver' = [driver EXCEPT !.pc = "except"]
            /\ sims' = sims
            /\ Note("update", driver.sid, driver.sim, FALSE, "IndexError")
       ELSE /\ driver' = [driver EXCEPT !.pc = "pop_time_history"]
            /\ sims' = [sims EXCEPT ![driver.sim].hist = Tail(@)]
            /\ Note("update", driver.sid, driver.sim, FALSE, "none")
    /\ UNCHANGED <<simulations, enginevars, ballvars>>

\* self.time_history.pop(0) : IndexError on an empty list
DriverPopTime ==
    /\ driver.pc = "pop_time_history"
    /\ IF sims[driver.sim].thist = <<>>
       THEN /\ driver' = [driver EXCEPT !.pc = "except"]
            /\ sims' = sims
            /\ Note("update", driver.sid, driver.sim, FALSE, "IndexError")
       ELSE /\ driver' = [driver EXCEPT !.pc = "append_history"]
            /\ sims' = [sims EXCEPT ![driver.sim].thist = Tail(@)]
            /\ Note("update", driver.sid, driver.sim, FALSE, "none")
    /\ UNCHANGED <<simulations, enginevars, ballvars>>

\* self.history.append(self.ball.get_state())
DriverAppendHistory ==
    /\ driver.pc = "append_history"
    /\ sims' = [sims EXCEPT ![driver.sim].hist = Append(@, sims[driver.sim].ball)]
    /\ driver' = [driver EXCEPT !.pc = "append_time_history"]
    /\ Note("update", driver.sid, driver.sim, FALSE, "none")
    /\ UNCHANGED <<simulations, enginevars, ballvars>>

\* self.time_history.append(self.simulation_time)
DriverAppendTime ==
    /\ driver.pc = "append_time_history"
    /\ sims' = [sims EXCEPT ![driver.sim].thist = Append(@, sims[driver.sim].time)]
    /\ driver' = [driver EXCEPT !.pc = "ball_update"]
    /\ Note("update", driver.sid, driver.sim, FALSE, "none")
    /\ UNCHANGED <<simulations, enginevars, ballvars>>

\* self.ball.update(self.dt)
DriverBallUpdate ==
    /\ driver.pc = "ball_update"
    /\ sims' = [sims EXCEPT ![driver.sim].ball = update_physics(@, DT)]
    /\ driver' = [driver EXCEPT !.pc = "check_ground_collision"]
    /\ Note("update", driver.sid, driver.sim, FALSE, "none")
    /\ UNCHANGED <<simulations, enginevars, ballvars>>

\* self.ball.check_ground_collision()
DriverCollision ==
    /\ driver.pc = "check_ground_collision"
    /\ sims' = [sims EXCEPT ![driver.sim].ball = check_ground_collision_physics(@)]
    /\ driver' = [driver EXCEPT !.pc = "advance_time"]
    /\ Note("update", driver.sid, driver.sim, FALSE, "none")
    /\ UNCHANGED <<simulations, enginevars, ballvars>>

\* self.simulation_time += self.dt, the return of the state and
\* socketio.emit('simulation_state', state, room=sid)
DriverAdvanceTime ==
    /\ driver.pc = "advance_time"
    /\ driver' = ForDriver(driver.items)
    /\ sims' = LiveSims(simulations,
                        [sims EXCEPT ![driver.sim] =
                            Stored([@ EXCEPT !.time = @ + DT,
                                             !.nticks = @ + 1])],
                        driver')
    /\ Note("update", driver.sid, driver.sim, FALSE, "simulation_state")
    /\ UNCHANGED <<simulations, enginevars, ballvars>>

\* "except Exception as e: logger.error(...); if sid in simulations:"
DriverExcept ==
    /\ driver.pc = "except"
    /\ driver' = IF driver.sid \in DOMAIN simulations
                 THEN [driver EXCEPT !.pc = "delete"]
                 ELSE ForDriver(driver.items)
    /\ sims' = LiveSims(simulations, sims, driver')
    /\ Note("update", driver.sid, driver.sim, FALSE, "error")
    /\ UNCHANGED <<simulations, enginevars, ballvars>>

\* "del simulations[sid]" : a sid that is gone by now raises KeyError inside
\* the handler of the inner try; the outer "except Exception" ends the pass
\* (time.sleep(0.1)) and the loop goes on
DriverDelete ==
    /\ driver.pc = "delete"
    /\ IF driver.sid \in DOMAIN simulations
       THEN /\ simulations' = [x \in DOMAIN simulations \ {driver.sid} |->
                                  simulations[x]]
            /\ driver' = ForDriver(driver.items)
            /\ Note("update", driver.sid, driver.sim, FALSE, "removed")
       ELSE /\ simulations' = simulations
            /\ driver' = IdleDriver
            /\ Note("update", driver.sid, driver.sim, FALSE, "KeyError")
    /\ sims' = LiveSims(simulations', sims, driver')
    /\ UNCHANGED <<enginevars, ballvars>>

\* the commands of a session
CommandOps == {"toggle_play", "reset", "step", "set_start_y"}

\* a command for a session id that has no entry: "if request.sid in
\* simulations:" fails and the handler returns
HandleNoSession(sid) ==
    /\ sid \notin DOMAIN simulations
    /\ \E op \in CommandOps :
           server_last' = [op |-> op, sid |-> sid, during |-> "idle",
                           malformed |-> FALSE, outcome |-> "none"]
    /\ UNCHANGED <<simulations, sims, driver, enginevars, ballvars>>

\* one pass of update_simulations over a session, taken as a whole:
\* "if simulation.is_playing: state = simulation.update()"
UpdateSimulation(sid) ==
    /\ driver.pc = "idle"
    /\ sid \in DOMAIN simulations
    /\ sims[simulations[sid]].playing
    /\ sims[simulations[sid]].nticks < MaxSessionTicks
    /\ sims' = Assign(simulations[sid], play_tick("web", sims[simulations[sid]]))
    /\ Note("update", sid, simulations[sid], FALSE, "simulation_state")
    /\ UNCHANGED <<simulations, driver, enginevars, ballvars>>

\* a server with no client yet
ServerStart ==
    /\ EngineInit
    /\ variant = "web"
    /\ BallPairInit(PHYSICS_START_Y)
    /\ ServerInit

\* the sessions side by side: every handler and every pass of the update
\* thread is one step
ServerNext ==
    \/ \E sid \in SessionIds : HandleConnect(sid)
    \/ \E sid \in SessionIds : HandleDisconnect(sid)
    \/ \E sid \in SessionIds : HandleTogglePlay(sid)
    \/ \E sid \in SessionIds : HandleReset(sid)
    \/ \E sid \in SessionIds : HandleStep(sid)
    \/ \E sid \in SessionIds : HandleSetStartY(sid)
    \/ \E sid \in SessionIds : HandleNoSession(sid)
    \/ \E sid \in SessionIds : UpdateSimulation(sid)

ServerSpec == ServerStart /\ [][ServerNext]_vars

\* a server with one client connected
ThreadStart ==
    /\ EngineInit
    /\ variant = "web"
    /\ BallPairInit(PHYSICS_START_Y)
    /\ simulations = [sid \in {"a"} |-> 1]
    /\ sims = [id \in {1} |-> NewSimulation]
    /\ driver = IdleDriver
    /\ server_last = [op |-> "connect", sid |-> "a", during |-> "idle",
                      malformed |-> FALSE, outcome |-> "simulation_state"]

\* one session, its handlers' threads and the update thread statement by
\* statement
DriverStep ==
    \/ DriverSnapshot
    \/ DriverPick
    \/ DriverEnter
    \/ DriverCapacityTest
    \/ DriverPopHistory
    \/ DriverPopTime
    \/ DriverAppendHistory
    \/ DriverAppendTime
    \/ DriverBallUpdate
    \/ DriverCollision
    \/ DriverAdvanceTime
    \/ DriverExcept
    \/ DriverDelete

ThreadNext ==
    \/ HandleTogglePlay("a")
    \/ HandleReset("a")
    \/ HandleStep("a")
    \/ HandleDisconnect("a")
    \/ HandleNoSession("a")
    \/ DriverStep

ThreadSpec == ThreadStart /\ [][ThreadNext]_vars

\* a server with two clients connected
PassStart ==
    /\ EngineInit
    /\ variant = "web"
    /\ BallPairInit(PHYSICS_START_Y)
    /\ simulations = [sid \in SessionIds |-> IF sid = "a" THEN 1 ELSE 2]
    /\ sims = [id \in {1, 2} |-> NewSimulation]
    /\ driver = IdleDriver
    /\ server_last = [op |-> "connect", sid |-> "b", during |-> "idle",
                      malformed |-> FALSE, outcome |-> "simulation_state"]

\* the passes of the update thread over two sessions, statement by
\* statement, while one client plays and the other plays, resets and
\* disconnects
PassNext ==
    \/ \E sid \in SessionIds : HandleTogglePlay(sid)
    \/ HandleReset("a")
    \/ HandleDisconnect("a")
    \/ DriverStep

PassSpec == PassStart /\ [][PassNext]_vars

(***************************************************************************)
(* The two input boundaries: the text fields of the GUI of                 *)
(* main_refactored.py in front of the TimeManager, and the 'step' message  *)
(* of one web session.                                                     *)
(***************************************************************************)
\* what a text field holds: the text of a number (in frames in frame mode,
\* in time units otherwise) or a text that is no number
TextInputs ==
    {[kind |-> "number", value |-> a] : a \in (-MaxStep) .. MaxStep}
        \cup {[kind |-> "text", value |-> 0]}

\* float(step_input.text)
float_text(text) ==
    IF text.kind = "number" THEN [raised |-> "none", value |-> text.value]
                            ELSE [raised |-> "ValueError", value |-> 0]

\* what becomes of an exception raised inside "try: ... except ValueError"
except_ValueError(raised) ==
    IF raised = "ValueError" THEN "warning" ELSE "raised"

\* _step_custom of main_refactored.py
step_custom(s, text) ==
    LET increment == float_text(text)
    IN  IF increment.raised # "none" THEN s
        ELSE IF s.mode = "frames"
             THEN IF increment.value > 0
                  THEN TM_step_forward_frames(s, increment.value)
                  ELSE TM_step_backward_frames(s, Abs(increment.value))
             ELSE IF increment.value > 0
                  THEN TM_step_forward_time(s, increment.value)
                  ELSE TM_step_backward_time(s, Abs(increment.value))

\* _set_time of main_refactored.py: a negative time is logged and ignored
set_time(s, text) ==
    LET target_time == float_text(text)
    IN  IF target_time.raised # "none" THEN s
        ELSE IF target_time.value >= 0
             THEN TM_jump_to_time(s, target_time.value)
             ELSE s

\* an operation of the GUI on the engine, recorded as a boundary event
CommitGui(op, text, r) ==
    /\ CommitFields(op, text.value, r)
    /\ round_trip' = NoTrip
    /\ server_last' = [op |-> op, sid |-> "gui", during |-> "idle",
                       malformed |-> text.kind = "text",
                       outcome |-> IF float_text(text).raised = "none"
                                   THEN "none"
                                   ELSE except_ValueError(float_text(text).raised)]
    /\ UNCHANGED <<heap, state_ref, history_refs, simulations, sims, driver>>

StepCustom ==
    \E text \in TextInputs : CommitGui("step_custom", text, step_custom(Cur, text))

SetTime ==
    \E text \in TextInputs : CommitGui("set_time", text, set_time(Cur, text))

\* either the GUI in front of a TimeManager or a server with one client,
\* as variant says
BoundaryStart ==
    /\ EngineInit
    /\ variant \in {"tm", "web"}
    /\ BallPairInit(PHYSICS_START_Y)
    /\ simulations = [sid \in {"a"} |-> 1]
    /\ sims = [id \in {1} |-> NewSimulation]
    /\ driver = IdleDriver
    /\ server_last = [op |-> "connect", sid |-> "a", during |-> "idle",
                      malformed |-> FALSE, outcome |-> "simulation_state"]

BoundaryNext ==
    \/ variant = "tm" /\ StepCustom
    \/ variant = "tm" /\ SetTime
    \/ variant = "tm" /\ TogglePlayPause
    \/ variant = "tm" /\ ToggleStepMode
    \/ variant = "tm" /\ Update
    \/ variant = "web" /\ HandleStep("a")
    \/ variant = "web" /\ HandleTogglePlay("a")
    \/ variant = "web" /\ UpdateSimulation("a")

BoundarySpec == BoundaryStart /\ [][BoundaryNext]_vars

TypeOK ==
    /\ variant \in Variants
    /\ simulation_time \in 0 .. MaxTime
    /\ is_playing \in BOOLEAN
    /\ auto_pause_after_step \in BOOLEAN
    /\ step_mode \in {"frames", "seconds"}
    /\ Len(history) <= HistoryCap

(***************************************************************************)
(* Properties.                                                             *)
(***************************************************************************)
\* operations that the code treats as stepping operations
SteppingOps ==
    {"step_forward_frames", "step_forward_time", "step_backward_frames",
     "step_backward_time", "jump_to_time"}

\* operations that fall back to reset() when they run out of history
FallbackOps ==
    {"step_backward_frames", "step_backward_time", "jump_to_time",
     "rewind_to_time"}

\* C1: round-trip stepping.  When step_forward_frames(n), n > 0, is directly
\* followed by step_backward_frames(n) and the history holds at least n
\* entries, the Body and simulation_time are again what they were before
\* the forward step.
C1_RoundTrip ==
    (round_trip.done /\ round_trip.enough)
        => (ball = round_trip.ball /\ simulation_time = round_trip.time)

\* C2: every fallback to reset ends in the full initial state.  After a
\* backward step, jump or rewind that called reset(), simulation_time is 0,
\* the history is empty and the Body is its initial snapshot.
C2_FallbackIsInitial ==
    (last.op \in FallbackOps /\ last.nreset > 0)
        => /\ simulation_time = 0
           /\ history = <<>>
           /\ time_history = <<>>
           /\ ball = InitialBall(variant)

\* C3: reset() leaves simulation_time = 0, is_playing = FALSE, both history
\* sequences empty and the Body at its initial position with zero velocity
\* and zero acceleration, whichever operation called it.
C3_ResetPostcondition ==
    (last.nreset > 0)
        => /\ simulation_time = 0
           /\ ~is_playing
           /\ history = <<>> /\ time_history = <<>>
           /\ ball.y = InitialBall(variant).y
           /\ ball.velocity_y = 0
           /\ ball.acceleration_y = 0

\* C4 as stated: with auto_pause_after_step off, no stepping operation
\* changes is_playing.
C4_SteppingKeepsPlayState ==
    [][ (last'.op \in SteppingOps /\ ~auto_pause_after_step)
            => is_playing' = is_playing ]_vars

\* C4 amended: with auto_pause_after_step off, a stepping operation that does
\* not fall back to reset() leaves is_playing unchanged; one that falls back
\* to reset() leaves it FALSE.
C4_SteppingKeepsPlayStateUnlessReset ==
    [][ (last'.op \in SteppingOps /\ ~auto_pause_after_step)
            => IF last'.nreset = 0 THEN is_playing' = is_playing
                                   ELSE ~is_playing' ]_vars

\* a stepping operation has advanced a playing simulation, auto-pause off,
\* and the simulation still plays
C4_Witness ==
    /\ last.op \in SteppingOps
    /\ last.nticks > 0
    /\ last.nreset = 0
    /\ ~auto_pause_after_step
    /\ is_playing

\* C5: step_forward_frames(n), n > 0, makes exactly n ticks against the
\* simulation's ground: its Body, simulation_time and history are those of
\* step_forward_time over n ticks from the same state.
C5_FramesEqualTimeSteps ==
    [][ (last'.op = "step_forward_frames" /\ last'.arg > 0)
            => LET r == step_forward_time(variant, Cur, last'.arg * DT)
               IN  /\ last'.nticks = last'.arg
                   /\ ball' = r.ball
                   /\ simulation_time' = r.time
                   /\ history' = r.hist
                   /\ time_history' = r.thist ]_vars

\* C6: step_forward_time(seconds), seconds > 0, makes exactly
\* floor(seconds / dt) ticks: the time advances by that many dt, the history
\* gains that many entries up to capacity, a remainder below dt is dropped.
C6_FloorTicks ==
    [][ (last'.op = "step_forward_time" /\ last'.arg > 0)
            => LET steps == last'.arg \div DT
               IN  /\ last'.nticks = steps
                   /\ simulation_time' = simulation_time + steps * DT
                   /\ Len(history') = Min(HistoryCap, Len(history) + steps)
                   /\ (last'.arg < DT => UNCHANGED <<ball, history, time_history>>)
                   /\ (last'.arg >= DT => simulation_time' > simulation_time) ]_vars

\* C7: fixed-step invariant.  simulation_time is always a non-negative
\* multiple of dt.
C7_FixedStep ==
    simulation_time >= 0 /\ simulation_time % DT = 0

\* C8: simulation_time is never negative, and step_backward_time by at least
\* the elapsed time lands on time 0.
C8_NeverNegative ==
    /\ simulation_time >= 0
    /\ (last.op = "step_backward_time" /\ last.arg > 0 /\ last.arg >= last.t0)
           => simulation_time = 0

\* step_backward_time went back by more than the elapsed time of a
\* simulation that had advanced
C8_Witness ==
    /\ last.op = "step_backward_time"
    /\ last.t0 > 0
    /\ last.arg > last.t0
    /\ simulation_time = 0

\* C9: history bound.  Neither sequence ever holds more than HistoryCap
\* entries; an operation that pushes k entries leaves min(HistoryCap, old
\* length + k) entries: the most recent old entries in their old order,
\* followed by the pushed ones in insertion order, the oldest evicted first.
C9_HistoryBound ==
    /\ [](Len(history) <= HistoryCap /\ Len(time_history) <= HistoryCap)
    /\ [][ (last'.nticks > 0 /\ last'.nreset = 0)
               => LET k == last'.nticks
                      n == Len(history')
                      kept == n - Min(k, HistoryCap)
                  IN  /\ n = Min(HistoryCap, Len(history) + k)
                      /\ Len(time_history') = n
                      /\ kept >= 0
                      /\ SubSeq(history', 1, kept) =
                             SubSeq(history, Len(history) - kept + 1, Len(history))
                      /\ SubSeq(time_history', 1, kept) =
                             SubSeq(time_history, Len(time_history) - kept + 1,
                                    Len(time_history))
                      /\ (k <= HistoryCap =>
                             /\ history'[kept + 1] = ball
                             /\ time_history'[kept + 1] = simulation_time)
                      /\ \A i \in (kept + 1) .. (n - 1) :
                             time_history'[i] < time_history'[i + 1]
                      /\ time_history'[n] < simulation_time' ]_vars

\* the history is full and its oldest entries have been evicted
C9_Witness ==
    /\ Len(history) = HistoryCap
    /\ ticks_used > HistoryCap
    /\ last.nticks > 0
    /\ time_history[1] > 0

\* C10: the snapshot sequence and the time sequence always have the same
\* length.
C10_SameLength ==
    Len(history) = Len(time_history)

\* a backward frame step has popped entries and left some
C10_Witness ==
    /\ last.op = "step_backward_frames"
    /\ last.arg > 0
    /\ Len(history) >= 1
    /\ Len(time_history) = Len(history)

\* C11: the stored times are non-decreasing in index order in every
\* reachable state: time_history[i] <= time_history[j] for all i < j.
C11_TimesNonDecreasing ==
    \A i, j \in 1 .. Len(time_history) :
        i < j => time_history[i] <= time_history[j]

\* forward ticks after a rewind have pushed a time equal to the restored
\* entry's, and the oldest entries have been evicted from a full history
C11_Witness ==
    /\ last.nticks > 0
    /\ Len(time_history) = HistoryCap
    /\ time_history[1] > 0
    /\ \E i \in 1 .. Len(time_history) - 1 :
           time_history[i] = time_history[i + 1]

\* distance of stored time i of th from target
Dist(th, i, target) == Abs(th[i] - target)

\* the nearest-time index as the claims define it: an index of minimal
\* distance to target, the smallest one among those
NearestIdx(th, target) ==
    CHOOSE i \in 1 .. Len(th) :
        /\ \A j \in 1 .. Len(th) : Dist(th, i, target) <= Dist(th, j, target)
        /\ \A j \in 1 .. (i - 1) : Dist(th, j, target) > Dist(th, i, target)

\* C13: rewind_to_time(target) on a non-empty history, idx being the
\* nearest-time index, pops exactly len - idx entries (indices counted from
\* 1) from the tail, leaves the entries up to idx unchanged, sets the Body to
\* snapshot idx and simulation_time to time idx; nothing beyond idx survives.
C13_RewindPops ==
    [][ (last'.op = "rewind_to_time" /\ Len(time_history) > 0)
            => LET idx == NearestIdx(time_history, last'.arg)
               IN  /\ Len(history') = idx
                   /\ Len(time_history') = idx
                   /\ Len(history') >= 1
                   /\ history' = SubSeq(history, 1, idx)
                   /\ time_history' = SubSeq(time_history, 1, idx)
                   /\ ball' = history[idx]
                   /\ simulation_time' = time_history[idx]
                   /\ last'.nreset = 0 ]_vars

\* a rewind has popped entries from a history and left at least one
C13_Witness ==
    /\ last.op = "rewind_to_time"
    /\ last.nreset = 0
    /\ Len(history) >= 1
    /\ simulation_time < last.t0 - DT
    /\ ball = history[Len(history)]

\* backward operations that take effect
BackwardApplied ==
    \/ last.op \in {"step_backward_frames", "step_backward_time"} /\ last.arg > 0
    \/ last.op = "rewind_to_time"
    \/ last.op = "jump_to_time" /\ last.arg >= 0 /\ last.arg < last.t0

\* C14: after a backward operation (step_backward_frames, step_backward_time,
\* rewind_to_time, jump_to_time to an earlier time), whenever the history is
\* non-empty the time of its last entry equals simulation_time and the Body
\* equals its last snapshot.
C14_TailIsCurrent ==
    (BackwardApplied /\ Len(history) > 0)
        => /\ time_history[Len(time_history)] = simulation_time
           /\ history[Len(history)] = ball

\* a backward step after forward ticks has left a non-empty history
C14_Witness ==
    /\ last.op \in {"step_backward_frames", "step_backward_time"}
    /\ last.arg > 0
    /\ last.t0 > simulation_time
    /\ Len(history) > 0
    /\ simulation_time > 0

\* C15: nearest-time selection.  For every target, the index chosen by the
\* rewind scan minimises |time[i] - target| over the stored entries and is
\* the smallest index among those of minimal distance.
C15_NearestOldestFirst ==
    \A target \in TargetArgs :
        Len(time_history) > 0
            => LET idx == nearest(time_history, target)
               IN  /\ idx \in 1 .. Len(time_history)
                   /\ \A j \in 1 .. Len(time_history) :
                          Dist(time_history, idx, target)
                              <= Dist(time_history, j, target)
                   /\ \A j \in 1 .. (idx - 1) :
                          Dist(time_history, j, target)
                              > Dist(time_history, idx, target)

\* a rewind has run on a history in which some target is equally near to
\* two stored times, and the scan picks the older of them
C15_Witness ==
    /\ last.op = "rewind_to_time"
    /\ last.nreset = 0
    /\ \E target \in TargetArgs :
           \E j \in 2 .. Len(time_history) :
               /\ nearest(time_history, target) < j
               /\ Dist(time_history, j, target)
                      = Dist(time_history, nearest(time_history, target), target)

\* C16: jump_to_time with a negative target is clamped to 0: from a state
\* with simulation_time > 0 it has the effect of jump_to_time(0), and the
\* simulation ends reset at time 0.
C16_NegativeJumpClamped ==
    [][ (last'.op = "jump_to_time" /\ last'.arg < 0 /\ simulation_time > 0)
            => LET r == jump_to_time(variant, Cur, 0)
               IN  /\ simulation_time' = 0
                   /\ last'.nreset > 0
                   /\ simulation_time' = r.time
                   /\ ball' = r.ball
                   /\ history' = r.hist
                   /\ time_history' = r.thist
                   /\ is_playing' = r.playing ]_vars

\* C17: jump_to_time(target) with target > simulation_time performs exactly
\* the ticks of step_forward_time(target - simulation_time) and ends with
\* target - dt < simulation_time <= target; with target = simulation_time it
\* leaves the Body, simulation_time and the history unchanged.
C17_JumpForward ==
    [][ (last'.op = "jump_to_time" /\ last'.arg >= simulation_time)
            => IF last'.arg > simulation_time
               THEN LET r == step_forward_time(variant, Cur,
                                               last'.arg - simulation_time)
                    IN  /\ last'.nticks = r.nticks
                        /\ ball' = r.ball
                        /\ simulation_time' = r.time
                        /\ history' = r.hist
                        /\ time_history' = r.thist
                        /\ last'.arg - DT < simulation_time'
                        /\ simulation_time' <= last'.arg
                        /\ simulation_time' >= simulation_time
               ELSE /\ UNCHANGED <<ball, simulation_time, history, time_history>>
                    /\ last'.nticks = 0 ]_vars

\* a jump forward from a later time than 0 has made ticks and stopped
\* short of a target that is not a whole number of ticks away
C17_Witness ==
    /\ last.op = "jump_to_time"
    /\ last.t0 > 0
    /\ last.arg > last.t0
    /\ last.nticks > 0
    /\ simulation_time < last.arg

\* C18: whenever auto_pause_after_step is set, is_playing is false after
\* every call of a stepping operation, whatever the play state was before.
C18_AutoPause ==
    [][ (last'.op \in SteppingOps /\ auto_pause_after_step)
            => ~is_playing' ]_vars

\* the zero-magnitude calls C19 covers: the argument of a frame or time
\* step is 0 (negative magnitudes are n <= 0 too; a signed step of the
\* PhysicsSimulation copies with a negative count is a backward step)
ZeroMagnitude ==
    /\ last'.op \in {"step_forward_frames", "step_backward_frames",
                     "step_forward_time", "step_backward_time"}
    /\ last'.arg <= 0

\* C19: a frame or time step with a zero or negative magnitude leaves the
\* Body, simulation_time, the history and is_playing unchanged.
C19_ZeroStepNoOp ==
    [][ ZeroMagnitude
            => UNCHANGED <<ball, simulation_time, history, time_history,
                           is_playing>> ]_vars

\* the other step mode
OtherMode(mode) == IF mode = "frames" THEN "seconds" ELSE "frames"

\* the stepping operation op with argument arg, applied to s
SteppingResult(v, s, op, arg) ==
    CASE op = "step_forward_frames" -> step_forward_frames(v, s, arg)
      [] op = "step_backward_frames" -> step_backward_frames(v, s, arg)
      [] op = "step_forward_time" -> step_forward_time(v, s, arg)
      [] op = "step_backward_time" -> step_backward_time(v, s, arg)
      [] op = "jump_to_time" -> jump_to_time(v, s, arg)

\* C20: toggle_step_mode changes only step_mode, flipping FRAMES to SECONDS
\* and SECONDS to FRAMES, so that two toggles restore the mode; the Body,
\* simulation_time, the history and is_playing are left unchanged; and a
\* stepping operation of TimeManager has the same effect under either mode
\* and does not change the mode.
C20_StepModeIsAHint ==
    /\ [](toggle_step_mode(toggle_step_mode(Cur)) = Cur)
    /\ [][ last'.op = "toggle_step_mode"
               => /\ step_mode' = OtherMode(step_mode)
                  /\ UNCHANGED <<ball, simulation_time, history, time_history,
                                 is_playing, auto_pause_after_step>> ]_vars
    /\ [][ (variant = "tm" /\ last'.op \in SteppingOps)
               => LET flipped == [Cur EXCEPT !.mode = OtherMode(step_mode)]
                      r == SteppingResult("tm", flipped, last'.op, last'.arg)
                  IN  /\ step_mode' = step_mode
                      /\ r.mode = flipped.mode
                      /\ ball' = r.ball
                      /\ simulation_time' = r.time
                      /\ history' = r.hist
                      /\ time_history' = r.thist
                      /\ is_playing' = r.playing ]_vars

\* a time step of TimeManager has made ticks while the mode was FRAMES
C20_Witness ==
    /\ variant = "tm"
    /\ step_mode = "frames"
    /\ last.op = "step_forward_time"
    /\ last.nticks > 0

\* C12: snapshot isolation.  Every stored snapshot keeps the fields it was
\* saved with, whatever ticks, resets and restores of the live Body follow:
\* the object stored at each index still holds the value that was pushed
\* there, and the live object holds the Body the operations computed.
C12_SnapshotIsolation ==
    /\ Len(history_refs) = Len(history)
    /\ \A i \in 1 .. Len(history_refs) :
           /\ history_refs[i] \in DOMAIN heap
           /\ heap[history_refs[i]] = history[i]
    /\ state_ref \in DOMAIN heap
    /\ heap[state_ref] = ball

\* the Body has been restored from a stored entry and has ticked since: the
\* entry it was restored from is still stored, next to the one the tick
\* pushed, and the live Body differs from both
C12_Witness ==
    /\ last.op = "step_forward_time"
    /\ Len(history_refs) >= 2
    /\ time_history[Len(time_history) - 1] = time_history[Len(time_history)]
    /\ heap[state_ref] # heap[history_refs[Len(history_refs)]]
    /\ heap[history_refs[Len(history_refs) - 1]] = history[Len(history) - 1]

(***************************************************************************)
(* Properties of the pair of Bodies.                                       *)
(***************************************************************************)
\* the collision of the last tick fired: update left the Body at or past
\* the ground
FiredScreen == last_tick.dt > 0 /\ last_tick.screen.y + RADIUS >= GROUND_Y

FiredPhysics == last_tick.dt > 0 /\ last_tick.physics.y <= RADIUS

\* r is -bounce_damping times w (up to the truncation of the quotient), or 0
\* when that product is smaller than the minimum bounce velocity
Damped(w, r) ==
    IF Abs(BOUNCE_NUM * w) < MIN_BOUNCE_VELOCITY * BOUNCE_DEN
    THEN r = 0
    ELSE /\ Abs(BOUNCE_DEN * r + BOUNCE_NUM * w) < BOUNCE_DEN
         /\ Abs(BOUNCE_DEN * r) <= Abs(BOUNCE_NUM * w)

\* C23: after every tick the ball is not past the ground (y + radius <=
\* ground_y in screen coordinates, y >= radius in physics coordinates); when
\* the collision fired, the ball is exactly on the ground, its velocity is
\* -bounce_damping times the velocity it had before the collision, and 0
\* when that is smaller than the minimum bounce velocity.
C23_NeverPastGround ==
    /\ screen_ball.y + RADIUS <= GROUND_Y
    /\ physics_ball.y >= RADIUS
    /\ FiredScreen =>
           /\ screen_ball.y + RADIUS = GROUND_Y
           /\ Damped(last_tick.screen.velocity_y, screen_ball.velocity_y)
    /\ FiredPhysics =>
           /\ physics_ball.y = RADIUS
           /\ Damped(last_tick.physics.velocity_y, physics_ball.velocity_y)

\* a bounce: update went past the ground and the ball leaves it again
C23_Witness ==
    /\ FiredScreen /\ last_tick.screen.y + RADIUS > GROUND_Y
    /\ screen_ball.velocity_y < 0
    /\ FiredPhysics /\ last_tick.physics.y < RADIUS
    /\ physics_ball.velocity_y > 0

\* C24 as stated: after one or more ticks, velocity_y = 0 implies that the
\* ball lies exactly on the ground, in both coordinate systems.
C24_EnergyFloor ==
    last_tick.n > 0 =>
        /\ screen_ball.velocity_y = 0 => screen_ball.y + RADIUS = GROUND_Y
        /\ physics_ball.velocity_y = 0 => physics_ball.y = RADIUS

\* C24 amended: a velocity_y that is 0 before a tick and 0 after it implies
\* that after that tick the ball lies exactly on the ground the tick was
\* made against, in both coordinate systems.  (A single state with velocity 0 also occurs above
\* the ground: at the release and at the apex of a flight.)
C24_ZeroVelocityTwice ==
    [][ /\ (screen_ball.velocity_y = 0 /\ screen_ball'.velocity_y = 0)
            => screen_ball'.y + RADIUS = GROUND_Y
        /\ (physics_ball.velocity_y = 0 /\ physics_ball'.velocity_y = 0)
            => physics_ball'.y = RADIUS ]_vars

\* a tick that began with velocity 0 above the ground (the Body was
\* accelerated from 0) and ended with velocity 0: the collision snapped it
C24_Witness ==
    /\ last_tick.n > 0
    /\ last_tick.screen.acceleration_y # 0
    /\ last_tick.screen.velocity_y = last_tick.screen.acceleration_y * last_tick.dt
    /\ screen_ball.velocity_y = 0
    /\ last_tick.physics.acceleration_y # 0
    /\ last_tick.physics.velocity_y = last_tick.physics.acceleration_y * last_tick.dt
    /\ physics_ball.velocity_y = 0

\* both Bodies lie on the ground with velocity 0
BallAtRest ==
    /\ screen_ball.velocity_y = 0 /\ screen_ball.y + RADIUS = GROUND_Y
    /\ physics_ball.velocity_y = 0 /\ physics_ball.y = RADIUS

ScreenEnergy == get_energy(screen_ball, "screen", GROUND_Y)

PhysicsEnergy == get_energy(physics_ball, "physics", GROUND_Y)

\* C26: in every reachable state of a Body, in both coordinate systems, the
\* kinetic energy, the potential energy and the total energy that
\* get_energy reports are not negative, and the total is their sum.
C26_EnergyNeverNegative ==
    /\ ScreenEnergy.kinetic >= 0 /\ ScreenEnergy.potential >= 0
    /\ ScreenEnergy.total >= 0
    /\ ScreenEnergy.total = ScreenEnergy.kinetic + ScreenEnergy.potential
    /\ PhysicsEnergy.kinetic >= 0 /\ PhysicsEnergy.potential >= 0
    /\ PhysicsEnergy.total >= 0
    /\ PhysicsEnergy.total = PhysicsEnergy.kinetic + PhysicsEnergy.potential

\* a Body in flight: it moves and is above the ground, both energies are
\* positive
C26_Witness ==
    /\ last_tick.n > 0
    /\ ScreenEnergy.kinetic > 0 /\ ScreenEnergy.potential > 0
    /\ PhysicsEnergy.kinetic > 0 /\ PhysicsEnergy.potential > 0
    /\ physics_ball.velocity_y > 0

\* p is the mirror image of the screen-coordinate Body s
Mirrored(s, p) ==
    /\ p.y = GROUND_Y - s.y
    /\ p.velocity_y = -s.velocity_y
    /\ p.acceleration_y = -s.acceleration_y

\* C27: a screen-coordinate Body and a physics-coordinate Body started from
\* mirrored states stay mirrored after every tick; the rest test, the
\* collision, the clamp and the velocity at each impact coincide tick for
\* tick.
C27_CoordinateEquivalence ==
    /\ Mirrored(screen_ball, physics_ball)
    /\ Mirrored(last_tick.screen, last_tick.physics)
    /\ FiredScreen <=> FiredPhysics
    /\ (screen_ball.y + RADIUS = GROUND_Y) <=> (physics_ball.y = RADIUS)

\* a landing: both collisions fired on a moving Body and both snapped the
\* velocity to 0
C27_Witness ==
    /\ FiredScreen /\ FiredPhysics
    /\ last_tick.screen.velocity_y > MIN_BOUNCE_VELOCITY
    /\ last_tick.physics.velocity_y < -MIN_BOUNCE_VELOCITY
    /\ screen_ball.velocity_y = 0 /\ physics_ball.velocity_y = 0

\* i is what one integrate step makes of the Body b: the acceleration is 0
\* when b is at rest and the signed gravity otherwise, whatever b stored;
\* the velocity grows by acceleration * dt; the position moves by the new
\* velocity * dt
IntegrateStep(b, i, dt, at_rest, gravity) ==
    /\ i.acceleration_y = (IF at_rest THEN 0 ELSE gravity)
    /\ i.velocity_y = b.velocity_y + i.acceleration_y * dt
    /\ i.y = b.y + i.velocity_y * dt
    /\ i.x = b.x

\* C30: one integrate step takes is_at_rest = (velocity_y = 0 and ground
\* test) from the state before the tick, sets the acceleration to 0 at rest
\* and to the signed gravity otherwise, then updates the velocity and, with
\* the updated velocity, the position.  A ball with velocity 0 above the
\* ground moves toward the ground with non-zero velocity.
C30_IntegrateStep ==
    [][ last_tick' # last_tick =>
          /\ IntegrateStep(screen_ball, last_tick'.screen, last_tick'.dt,
                           screen_ball.velocity_y = 0
                               /\ screen_ball.y + RADIUS >= GROUND_Y,
                           GRAVITY)
          /\ IntegrateStep(physics_ball, last_tick'.physics, last_tick'.dt,
                           physics_ball.velocity_y = 0
                               /\ physics_ball.y <= RADIUS,
                           -GRAVITY)
          /\ (screen_ball.velocity_y = 0 /\ screen_ball.y + RADIUS < GROUND_Y)
                 => /\ last_tick'.screen.velocity_y > 0
                    /\ last_tick'.screen.y > screen_ball.y
          /\ (physics_ball.velocity_y = 0 /\ physics_ball.y > RADIUS)
                 => /\ last_tick'.physics.velocity_y < 0
                    /\ last_tick'.physics.y < physics_ball.y ]_vars

\* the first tick after the release: the Body has fallen freely from
\* velocity 0, no collision
C30_Witness ==
    /\ last_tick.n = 1
    /\ ~FiredScreen /\ ~FiredPhysics
    /\ screen_ball.velocity_y = GRAVITY * last_tick.dt
    /\ physics_ball.velocity_y = -GRAVITY * last_tick.dt
    /\ physics_ball.y + GRAVITY * last_tick.dt * last_tick.dt \in StartYs

(***************************************************************************)
(* Properties of the web server.                                           *)
(***************************************************************************)
\* the simulation of session sid
SimOf(sid) == sims[simulations[sid]]

\* C21: each connected client has a PhysicsSimulation of its own, and a
\* command handled for a session or a pass of the update thread over it
\* leaves the simulation (simulation_time, Body, history, is_playing) of
\* every other session as it was.
C21_SessionIsolation ==
    /\ [](\A a \in DOMAIN simulations : \A b \in DOMAIN simulations :
              a # b => simulations[a] # simulations[b])
    /\ [][ \A b \in (DOMAIN simulations \cap DOMAIN simulations')
                        \ {server_last'.sid} :
               sims'[simulations'[b]] = sims[simulations[b]] ]_vars

\* session a was just reset while session b is playing at a later time
C21_Witness ==
    /\ DOMAIN simulations = SessionIds
    /\ server_last.op = "reset" /\ server_last.sid = "a"
    /\ SimOf("a").time = 0 /\ ~SimOf("a").playing
    /\ SimOf("b").time > 0 /\ SimOf("b").playing
    /\ Len(SimOf("b").hist) > 0

\* the handlers of a session's commands
HandlerOps == {"toggle_play", "reset", "step"}

\* C22: a session's command handlers (toggle_play, reset, step) never run
\* while the update thread is inside the tick of that session's simulation
\* (save_state, ball.update, check_ground_collision, simulation_time += dt):
\* a tick runs to completion before a handler touches the simulation.
C22_TickRunsToCompletion ==
    server_last.op \in HandlerOps => server_last.during = "idle"

\* C29: a step or set-time command whose value cannot be parsed as a number
\* (the 'step' message of the web server, the step and time fields of the
\* GUI) raises nothing to its caller and leaves the Body, simulation_time,
\* the history and is_playing as they were; the outcome is a logged warning
\* or an error message.
C29_MalformedInputIgnored ==
    [][ (server_last'.malformed /\ server_last' # server_last) =>
          /\ UNCHANGED <<simulations, sims>>
          /\ UNCHANGED <<simulation_time, is_playing, auto_pause_after_step,
                         step_mode, ball, history, time_history>>
          /\ server_last'.outcome \in {"warning", "error"} ]_vars

\* a 'step' message without a number reached a playing web session that
\* has a history
C29_Witness ==
    /\ server_last.op = "step" /\ server_last.malformed
    /\ SimOf("a").playing
    /\ SimOf("a").time > 0
    /\ Len(SimOf("a").hist) > 0

(***************************************************************************)
(* The TimeManager copy with its Ball at rest on the ground.  The GUI      *)
(* reaches this state when the ball has come to rest and a jump to time 0  *)
(* or a backward step past the history falls back to TimeManager.reset,    *)
(* which clears time and history and leaves the Body where it is.          *)
(***************************************************************************)
RestBall ==
    [x |-> BALL_X, y |-> GROUND_Y - RADIUS, velocity_y |-> 0, acceleration_y |-> 0]

RestInit ==
    /\ variant = "tm"
    /\ simulation_time = 0
    /\ is_playing = FALSE
    /\ auto_pause_after_step = FALSE
    /\ step_mode = "seconds"
    /\ ball = RestBall
    /\ history = <<>>
    /\ time_history = <<>>
    /\ heap = InitialHeap(variant).heap
    /\ state_ref = InitialHeap(variant).ref
    /\ history_refs = InitialHeap(variant).refs
    /\ last = [op |-> "reset", arg |-> 0, t0 |-> 0, nreset |-> 1, nticks |-> 0]
    /\ ticks_used = 0
    /\ round_trip = NoTrip
    /\ BallPairInit(PHYSICS_START_Y)
    /\ ServerInit

RestSpec == RestInit /\ [][Next]_vars

(***************************************************************************)
(* Further properties of one engine.                                       *)
(***************************************************************************)
\* C36: in every reachable state of an engine run by one thread, an empty
\* history implies simulation_time = 0.
C36_EmptyHistoryAtTimeZero ==
    (history = <<>> \/ time_history = <<>>) => simulation_time = 0

\* an operation that began at a later time emptied the history
C36_Witness ==
    /\ history = <<>> /\ time_history = <<>>
    /\ simulation_time = 0
    /\ last.t0 > 0
    /\ last.op \in FallbackOps

\* the two rewinds applied to the same state s of copy v: the retained
\* history, the time and the Body agree; on an empty history both fall back
\* to reset, and each Body is the start Body of its copy
RewindsAgree(v, s, target_time) ==
    LET p == rewind_pop(v, s, target_time)
        q == rewind_slice(s, target_time)
    IN  /\ p.hist = q.hist
        /\ p.thist = q.thist
        /\ p.time = q.time
        /\ IF Len(s.thist) = 0
           THEN p.ball = InitialBall(v) /\ q.ball = InitialBall("web")
           ELSE p.ball = q.ball

\* C37: popping from the tail (TimeManager, main.py, desktop) and truncating
\* by a slice (web) are equivalent: from  every reachable state and for every
\* target they leave the same retained history, the same restored Body and
\* the same simulation_time, the reset fallback on an empty history included.
C37_RewindsEquivalent ==
    \A target_time \in TargetArgs : RewindsAgree(variant, Cur, target_time)

\* the copies that only ever advance by whole ticks of dt
FixedStep == {"tm", "main", "web"}

\* consecutive stored times differ by dt or by 0
EvenlySpaced(th) ==
    \A i \in 1 .. (Len(th) - 1) : th[i + 1] - th[i] \in {0, DT}

\* C40: in the fixed-step copies consecutive stored times differ by exactly
\* dt or 0, so rewind_to_time(target) with oldest <= target <= newest ends
\* with |simulation_time - target| <= dt/2, and with a target older than the
\* oldest retained entry it ends on the oldest retained entry.
C40_RewindAccuracy ==
    (variant \in FixedStep /\ time_history # <<>>) =>
        /\ EvenlySpaced(time_history)
        /\ \A target_time \in TargetArgs :
              LET r == rewind_to_time(variant, Cur, target_time)
                  oldest == time_history[1]
                  newest == time_history[Len(time_history)]
              IN  /\ (oldest <= target_time /\ target_time <= newest)
                        => 2 * Abs(r.time - target_time) <= DT
                  /\ target_time < oldest => r.time = oldest

\* a rewind to a target between two stored times ended half a tick away
\* from it, in a history that has lost its oldest entries
C40_Witness ==
    /\ variant \in FixedStep
    /\ last.op = "rewind_to_time"
    /\ last.nreset = 0
    /\ 2 * Abs(simulation_time - last.arg) = DT
    /\ last.t0 > simulation_time
    /\ time_history # <<>> /\ time_history[1] > 0

\* a rewind to a target older than the oldest retained entry ended on that
\* entry
C40_WitnessOldest ==
    /\ variant \in FixedStep
    /\ last.op = "rewind_to_time"
    /\ last.nreset = 0
    /\ last.arg < simulation_time
    /\ Len(time_history) = 1 /\ time_history[1] = simulation_time

\* the operations that only tick when they advance
TickingOps == {"update", "step_forward_frames", "step_forward_time", "jump_to_time"}

\* the Body of the engine lies on the simulation's ground with zero velocity
EngineBallAtRest ==
    /\ ball.velocity_y = 0
    /\ IF variant = "web" THEN ball.y = RADIUS ELSE ball.y + RADIUS = GROUND_Y

\* C31: rest is a fixed point: when velocity_y = 0 and the ball touches the
\* ground before a tick, then after any number of consecutive ticks position
\* and velocity are unchanged and acceleration_y = 0.
C31_RestIsFixedPoint ==
    [][(EngineBallAtRest /\ last'.op \in TickingOps
            /\ last'.nticks > 0 /\ last'.nreset = 0)
         => (ball'.x = ball.x /\ ball'.y = ball.y
               /\ ball'.velocity_y = 0 /\ ball'.acceleration_y = 0)]_vars

(***************************************************************************)
(* Further properties of the web server.                                   *)
(***************************************************************************)
\* the handlers that can leave a session paused
PausingOps == {"toggle_play", "reset"}

\* C32: the update thread advances a session only while it is playing: once
\* a toggle_play or reset handler has set is_playing to false and returned,
\* the session's simulation_time, Body and history do not change until the
\* next command, whatever the update thread does in between.
C32_PausedSessionIsStill ==
    [][ ("a" \in DOMAIN simulations /\ "a" \in DOMAIN simulations'
            /\ server_last.op \in PausingOps /\ server_last.sid = "a"
            /\ ~SimOf("a").playing
            /\ server_last'.op = "update")
          => /\ sims'[simulations'["a"]].time = SimOf("a").time
             /\ sims'[simulations'["a"]].ball = SimOf("a").ball
             /\ sims'[simulations'["a"]].hist = SimOf("a").hist
             /\ sims'[simulations'["a"]].thist = SimOf("a").thist ]_vars

\* the stored times of a simulation are none later than its time, and a
\* simulation without history is at time 0
TimeConsistent(s) ==
    /\ \A i \in 1 .. Len(s.thist) : s.thist[i] <= s.time
    /\ s.hist = <<>> => s.time = 0

\* C38: under every interleaving of a tick of the update thread with the
\* handlers of the same session (step with its rewind, reset, toggle_play),
\* once both have finished the history and the time history have the same
\* length, at most max_history, and simulation_time is consistent with the
\* retained history.
C38_HistoryPaired ==
    (driver.pc = "idle" /\ "a" \in DOMAIN simulations) =>
        /\ Len(SimOf("a").hist) = Len(SimOf("a").thist)
        /\ Len(SimOf("a").hist) <= HistoryCap
        /\ TimeConsistent(SimOf("a"))

\* C35: a 'set_start_y' command with a number for a connected session sets
\* the ball's start height to it and resets the session (time 0, paused,
\* zero velocity, history cleared), and the client receives the new
\* simulation state, not an error.
C35_SetStartY ==
    (server_last.op = "set_start_y" /\ server_last.sid \in DOMAIN simulations) =>
        /\ server_last.outcome = "simulation_state"
        /\ SimOf(server_last.sid).time = 0
        /\ ~SimOf(server_last.sid).playing
        /\ SimOf(server_last.sid).ball.y \in StartYArgs
        /\ SimOf(server_last.sid).ball.velocity_y = 0
        /\ SimOf(server_last.sid).hist = <<>>
        /\ SimOf(server_last.sid).thist = <<>>

\* C33: the registry holds an entry for a session id exactly from its
\* connect until its disconnect: an entry appears only by connect, as a
\* fresh paused simulation at time 0, and goes only by disconnect; after
\* connect the entry is there and after disconnect it is gone; a
\* toggle_play, reset or step for a session id without entry changes no
\* simulation.
C33_SessionLifecycle ==
    /\ [](server_last.op = "connect" => server_last.sid \in DOMAIN simulations)
    /\ [](server_last.op = "disconnect" => server_last.sid \notin DOMAIN simulations)
    /\ [][ \A sid \in SessionIds :
              /\ (sid \notin DOMAIN simulations /\ sid \in DOMAIN simulations')
                    => /\ server_last'.op = "connect" /\ server_last'.sid = sid
                       /\ sims'[simulations'[sid]] = NewSimulation
              /\ (sid \in DOMAIN simulations /\ sid \notin DOMAIN simulations')
                    => server_last'.op = "disconnect" /\ server_last'.sid = sid
              /\ (server_last'.op \in CommandOps /\ server_last'.sid = sid
                     /\ sid \notin DOMAIN simulations)
                    => UNCHANGED <<simulations, sims>> ]_vars

\* C39: session removal is free of races: the check-then-delete of the
\* update thread never raises KeyError, and the update thread neither
\* begins a tick nor emits a state for a session whose disconnect handler
\* has returned.
C39_RemovalRaceFree ==
    /\ [](server_last.outcome # "KeyError")
    /\ [][ (server_last'.op = "update" /\ driver.pc \in {"call_update", "advance_time"}
              /\ server_last'.outcome \in {"none", "simulation_state"})
            => driver.sid \in DOMAIN simulations ]_vars

\* the entries of the copy the update thread has not visited yet whose
\* session is registered and playing
Unvisited ==
    {sid \in DOMAIN driver.items \cap DOMAIN simulations :
        simulations[sid] = driver.items[sid] /\ sims[simulations[sid]].playing}

\* C34: when update() of one session raises during a pass of the update
\* thread, only that session is removed from the registry and the
\* simulations of the others are left alone, and the pass goes on: it ends
\* only when no registered, playing session of its copy is left unvisited.
C34_FailureIsolation ==
    /\ [][ DOMAIN simulations' # DOMAIN simulations /\ server_last'.op = "update"
            => /\ driver.pc = "delete"
               /\ DOMAIN simulations' = DOMAIN simulations \ {driver.sid}
               /\ \A sid \in DOMAIN simulations' :
                      sims'[simulations'[sid]] = sims[simulations[sid]] ]_vars
    /\ [][ (driver.pc # "idle" /\ driver'.pc = "idle") => Unvisited = {} ]_vars
====
